---- MODULE Spec2Model ----
(***************************************************************************)
(* Model of the data clearinghouse: the ingestion pipeline (ingestion.py,  *)
(* validators.py) writing Accounts, Trades and Positions through one       *)
(* SQLAlchemy session, and the query handlers of app.py that read the      *)
(* committed database.                                                     *)
(*                                                                         *)
(* Conventions.                                                            *)
(*  - An optional value (Python None or a value) is a sequence of length    *)
(*    0 or 1: None == <<>>, Some(v) == <<v>>.                               *)
(*  - Identifiers (account ids, tickers, trade types) are TLA+ strings.     *)
(*  - Text that the code takes apart (custodian_ref, SOURCE_SYSTEM) is a    *)
(*    sequence of atoms, an atom being "_" or a chunk holding no "_".       *)
(*  - Money is an integer number of cents, a date is a day number.          *)
(*  - A raw date field is [style, day]: the style is the textual layout     *)
(*    ("iso" for YYYY-MM-DD, "compact" for YYYYMMDD, "bad" otherwise).      *)
(***************************************************************************)
EXTENDS Integers, Sequences, FiniteSets, TLC

VARIABLES
  db,          \* the committed database: [accounts, trades, positions]
  sess,        \* what the ingesting session sees: db plus its flushed writes
  pc,          \* "idle" | "rows": position of the ingestion call
  fmt,         \* file_format of the call in progress (or of the last call)
  report,      \* DataQualityReport of the call in progress (or of the last call)
  custodians,  \* the local set `custodians` of the format 2 / YAML handlers
  todo,        \* validated_file.positions still to be processed (YAML)
  reportDate,  \* validated_file.report_date (YAML)
  hist,        \* history of the call: what the reader delivered so far
  firsts,      \* history: the first custodian a record carried for each account
  used,        \* number of records delivered to the handlers so far
  resp,        \* response of the last query handler, None after an ingestion
  \* Concurrent requests, each on a session of its own:
  shared,      \* the committed Trade rows, as every session reads them
  txn,         \* per request: the rows its open transaction has written
  at,          \* per request: "idle" | "rows"
  file,        \* per request: name of the temporary file of its call
  calls,       \* number of calls started so far; names the temporary files
  ended,       \* history: the calls that returned, [file, outcome, wrote]
  seen,        \* what the last concurrent query read, None before any
  mirror,      \* a second store, fed the trades of db in the other format
  accts,       \* the committed accounts table the concurrent requests share
  made         \* per request: the account ids its session has inserted

cvars == <<shared, txn, at, file, calls, ended, seen, mirror, accts, made>>

vars == <<db, sess, pc, fmt, report, custodians, todo, reportDate, hist, firsts,
          used, resp, cvars>>

-----------------------------------------------------------------------------
(* Bounds of the model *)

\* Rows a CSV reader delivers in one call, entries of one YAML document.
MaxRows == 3
\* Records delivered to the handlers in one behaviour, all calls together.
MaxRecords == 3
\* Concurrent calls started in one behaviour.
MaxCalls == 3
\* Rows one concurrent call accepts.
MaxPending == 2

\* Holdings of the account whose concentration is computed: trades of one
\* file, rows of one snapshot.
MaxHoldings == 5

-----------------------------------------------------------------------------
(* Optional values and sequence helpers *)

None == <<>>
Some(v) == <<v>>
IsNone(o) == Len(o) = 0
Val(o) == o[1]

RECURSIVE SumSeq(_)
SumSeq(s) == IF s = <<>> THEN 0 ELSE Head(s) + SumSeq(Tail(s))

Range(s) == {s[i] : i \in 1..Len(s)}

Abs(n) == IF n < 0 THEN -n ELSE n

RECURSIVE SeqsUpTo(_, _)
SeqsUpTo(S, n) ==
  IF n = 0 THEN {<<>>}
  ELSE LET shorter == SeqsUpTo(S, n - 1)
       IN shorter \cup {Append(s, x) : s \in {t \in shorter : Len(t) = n - 1}, x \in S}

-----------------------------------------------------------------------------
(* Text: split on "_" and the order of Python strings *)

\* str.split("_"): the chunks between the "_" atoms ("a__b" gives "a", "", "b").
RECURSIVE Split(_)
Split(s) ==
  IF s = <<>> THEN << <<>> >>
  ELSE IF Head(s) = "_" THEN << <<>> >> \o Split(Tail(s))
  ELSE LET rest == Split(Tail(s))
       IN << <<Head(s)>> \o Head(rest) >> \o Tail(rest)

\* The identifiers of the model, ascending in Python's str order; StrLess is
\* `<` on them.
StrAscending == <<"AAPL", "ACC001", "ACC002", "GOOGL", "MSFT", "NVDA", "TSLA">>
StrRank(s) == CHOOSE i \in 1..Len(StrAscending) : StrAscending[i] = s
StrLess(a, b) == StrRank(a) < StrRank(b)

CUSTODIAN_A == <<"CUSTODIAN", "_", "A">>
CUSTODIAN_B == <<"CUSTODIAN", "_", "B">>
TextAscending == << <<"CUSTODIAN", "_">>, CUSTODIAN_A, CUSTODIAN_B >>
TextRank(s) == CHOOSE i \in 1..Len(TextAscending) : TextAscending[i] = s

\* sorted(list(S)) for a set of custodian names.
RECURSIVE SortedTexts(_)
SortedTexts(S) ==
  IF S = {} THEN <<>>
  ELSE LET m == CHOOSE x \in S : \A y \in S : TextRank(x) <= TextRank(y)
       IN <<m>> \o SortedTexts(S \ {m})

-----------------------------------------------------------------------------
(* validators.py *)

IsoDate(d) == [style |-> "iso", day |-> d]
CompactDate(d) == [style |-> "compact", day |-> d]

\* Field(min_length, max_length) on a str.
AccountIdMaxLen == 50
TickerMaxLen == 20
StrLenOk(s, lo, hi) == Len(s) >= lo /\ Len(s) <= hi

TradeTypes == {"BUY", "SELL"}

\* TradeFormat1(**row) raises no ValidationError.
TradeFormat1Valid(row) ==
  /\ row.TradeDate.style = "iso"
  /\ StrLenOk(row.AccountID, 1, AccountIdMaxLen)
  /\ StrLenOk(row.Ticker, 1, TickerMaxLen)
  /\ ~IsNone(row.Quantity) /\ Val(row.Quantity) > 0
  /\ ~IsNone(row.Price) /\ Val(row.Price) > 0
  /\ row.TradeType \in TradeTypes
  /\ row.SettlementDate.style = "iso"
  /\ ~(row.SettlementDate.day < row.TradeDate.day)

\* The validated model of a Format 1 row.
TradeFormat1(row) ==
  [trade_date |-> row.TradeDate.day,
   account_id |-> row.AccountID,
   ticker |-> row.Ticker,
   quantity |-> Val(row.Quantity),
   price |-> Val(row.Price),
   trade_type |-> row.TradeType,
   settlement_date |-> row.SettlementDate.day]

\* TradeFormat2(**row) raises no ValidationError (check_market_value_sign
\* accepts every sign combination).
TradeFormat2Valid(row) ==
  /\ row.REPORT_DATE.style = "compact"
  /\ StrLenOk(row.ACCOUNT_ID, 1, AccountIdMaxLen)
  /\ StrLenOk(row.SECURITY_TICKER, 1, TickerMaxLen)
  /\ ~IsNone(row.SHARES)
  /\ ~IsNone(row.MARKET_VALUE)
  /\ Len(row.SOURCE_SYSTEM) >= 1

\* n / d for n >= 0, d > 0, rounded to the nearest cent (ties to even): the
\* Decimal quotient as the Numeric(12, 2) column keeps it.
DivRound(n, d) ==
  LET q == n \div d
      r == n % d
  IN IF 2 * r > d THEN q + 1
     ELSE IF 2 * r < d THEN q
     ELSE IF q % 2 = 0 THEN q ELSE q + 1

\* TradeFormat2.derived_price
derived_price(shares, market_value) ==
  IF shares # 0 THEN Some(DivRound(Abs(market_value), Abs(shares))) ELSE None

TradeFormat2(row) ==
  [report_date |-> row.REPORT_DATE.day,
   account_id |-> row.ACCOUNT_ID,
   ticker |-> row.SECURITY_TICKER,
   shares |-> Val(row.SHARES),
   market_value |-> Val(row.MARKET_VALUE),
   source_system |-> row.SOURCE_SYSTEM,
   derived_price |-> derived_price(Val(row.SHARES), Val(row.MARKET_VALUE))]

\* BankPosition(**entry) raises no ValidationError.
BankPositionValid(e) ==
  /\ StrLenOk(e.account_id, 1, AccountIdMaxLen)
  /\ StrLenOk(e.ticker, 1, TickerMaxLen)
  /\ ~IsNone(e.shares)
  /\ ~IsNone(e.market_value)
  /\ ~IsNone(e.custodian_ref) /\ Len(Val(e.custodian_ref)) >= 1

BankPosition(e) ==
  [account_id |-> e.account_id,
   ticker |-> e.ticker,
   shares |-> Val(e.shares),
   market_value |-> Val(e.market_value),
   custodian_ref |-> Val(e.custodian_ref)]

\* BankPositionFile(**data) raises nothing: data is a mapping, report_date is
\* eight digits and every entry of positions is a valid BankPosition.
BankPositionFileValid(doc) ==
  /\ doc.wellformed
  /\ doc.report_date.style = "compact"
  /\ \A i \in 1..Len(doc.positions) : BankPositionValid(doc.positions[i])

BankPositionFile(doc) ==
  [report_date |-> doc.report_date.day,
   positions |-> [i \in 1..Len(doc.positions) |-> BankPosition(doc.positions[i])]]

\* DataQualityReport(file_format=...)
DataQualityReport(file_format) ==
  [file_format |-> file_format,
   records_processed |-> 0,
   records_valid |-> 0,
   records_failed |-> 0,
   errors |-> <<>>,
   new_accounts_created |-> 0,
   custodians_detected |-> <<>>]

-----------------------------------------------------------------------------
(* ingestion.py: helpers *)

\* Python truth value of an optional text: neither None nor "".
Truthy(o) == ~IsNone(o) /\ Val(o) # <<>>

\* A wrong extraction: the last segment of the reference.
extract_custodian_name_last(custodian_ref) ==
  IF ~Truthy(custodian_ref) THEN None
  ELSE LET parts == Split(Val(custodian_ref))
       IN IF Len(parts) >= 2
          THEN Some(<<"CUSTODIAN", "_">> \o parts[Len(parts)]) ELSE None

\* extract_custodian_name(custodian_ref), custodian_ref an optional text.
extract_custodian_name(custodian_ref) ==
  IF ~Truthy(custodian_ref) THEN None
  ELSE LET parts == Split(Val(custodian_ref))
       IN IF Len(parts) >= 2 THEN Some(<<"CUSTODIAN", "_">> \o parts[2]) ELSE None

\* session.query(Account).filter_by(account_id=...).first(), as a set with at
\* most one element (account_id is the primary key).
FindAccount(accounts, account_id) == {a \in accounts : a.account_id = account_id}

\* A wrong ensure_account_exists: the custodian of a later record replaces the
\* one already set.
ensure_account_exists_overwrite(accounts, account_id, custodian) ==
  LET found == FindAccount(accounts, account_id)
  IN IF found = {}
     THEN accounts \cup {[account_id |-> account_id, custodian_name |-> custodian]}
     ELSE IF Truthy(custodian)
          THEN (accounts \ found)
               \cup {[account_id |-> account_id, custodian_name |-> custodian]}
          ELSE accounts

\* ensure_account_exists(session, account_id, custodian): the accounts the
\* session holds afterwards.
ensure_account_exists(accounts, account_id, custodian) ==
  LET found == FindAccount(accounts, account_id)
  IN IF found = {}
     THEN accounts \cup {[account_id |-> account_id, custodian_name |-> custodian]}
     ELSE LET account == CHOOSE a \in found : TRUE
          IN IF Truthy(custodian) /\ ~Truthy(account.custodian_name)
             THEN (accounts \ found)
                  \cup {[account_id |-> account_id, custodian_name |-> custodian]}
             ELSE accounts

\* The handlers' test after ensure_account_exists,
\*   if not session.query(Account).filter_by(account_id=...).first():
\*     report.new_accounts_created += 1
\* The query autoflushes the session (sessionmaker's default), so it sees the
\* accounts as ensure_account_exists left them.
NewAccountIncrement(accountsAfter, account_id) ==
  IF FindAccount(accountsAfter, account_id) = {} THEN 1 ELSE 0

\* A wrong sign rule: the quantity is stored as read, whatever the trade type.
Format1QuantityUnsigned(validated) == validated.quantity

\* quantity of a Format 1 trade: negative for SELL.
Format1Quantity(validated) ==
  IF validated.trade_type = "SELL" THEN -validated.quantity ELSE validated.quantity

\* Trade(...) of ingest_trade_format1
Format1Trade(validated, file_format) ==
  LET quantity == Format1Quantity(validated)
      market_value == validated.price * Abs(quantity)
  IN [trade_date |-> validated.trade_date,
      account_id |-> validated.account_id,
      ticker |-> validated.ticker,
      quantity |-> quantity,
      price |-> Some(validated.price),
      trade_type |-> Some(validated.trade_type),
      settlement_date |-> Some(validated.settlement_date),
      market_value |-> Some(market_value),
      source_system |-> None,
      file_format |-> file_format]

\* A wrong Format 2 record: the share count without its sign.
Format2TradeUnsigned(validated, file_format) ==
  [trade_date |-> validated.report_date,
   account_id |-> validated.account_id,
   ticker |-> validated.ticker,
   quantity |-> Abs(validated.shares),
   price |-> validated.derived_price,
   trade_type |-> None,
   settlement_date |-> None,
   market_value |-> Some(validated.market_value),
   source_system |-> Some(validated.source_system),
   file_format |-> file_format]

\* Trade(...) of ingest_trade_format2
Format2Trade(validated, file_format) ==
  [trade_date |-> validated.report_date,
   account_id |-> validated.account_id,
   ticker |-> validated.ticker,
   quantity |-> validated.shares,
   price |-> validated.derived_price,
   trade_type |-> None,
   settlement_date |-> None,
   market_value |-> Some(validated.market_value),
   source_system |-> Some(validated.source_system),
   file_format |-> file_format]

\* Position(...) of ingest_bank_positions
BankPositionRecord(position_data, report_date) ==
  [report_date |-> report_date,
   account_id |-> position_data.account_id,
   ticker |-> position_data.ticker,
   shares |-> position_data.shares,
   market_value |-> position_data.market_value,
   custodian_ref |-> Some(position_data.custodian_ref)]

\* A wrong add: a record equal to one the table holds is not added again.
SessionMerge(records, record) ==
  IF record \in Range(records) THEN records ELSE Append(records, record)

\* session.add(record) for a new Trade or Position: a new row of the table,
\* whatever rows the table holds (the key is an autoincrement id).
SessionAdd(records, record) == Append(records, record)

KnownFormats == {"CSV_FORMAT1", "PIPE_FORMAT2", "YAML_POSITIONS"}

\* A wrong dispatch: the format string is matched without regard to case.
HandlerIgnoringCase(file_format) ==
  IF file_format \in {"CSV_FORMAT1", "csv_format1"} THEN "ingest_trade_format1"
  ELSE IF file_format = "PIPE_FORMAT2" THEN "ingest_trade_format2"
  ELSE IF file_format = "YAML_POSITIONS" THEN "ingest_bank_positions"
  ELSE "unknown"

\* The if / elif chain of ingest_file: the handler a format string selects.
Handler(file_format) ==
  IF file_format = "CSV_FORMAT1" THEN "ingest_trade_format1"
  ELSE IF file_format = "PIPE_FORMAT2" THEN "ingest_trade_format2"
  ELSE IF file_format = "YAML_POSITIONS" THEN "ingest_bank_positions"
  ELSE "unknown"

CsvHandlers == {"ingest_trade_format1", "ingest_trade_format2"}

\* session.rollback(): the session forgets its uncommitted writes.
Rollback == db

\* A handler whose outer except clause does not roll back.
NoRollback == sess

\* The session after the outer except clause of a handler.
AfterFileError == Rollback

\* The session after the except clause of one record: the records accepted
\* before it stay pending.
RecordErrorRollsBack == db

AfterRecordError == sess

\* report.errors.append(f"File processing error: ...")
WithFileError(rep) ==
  [rep EXCEPT !.errors = Append(@, [kind |-> "File processing error", row |-> 0])]

\* report.errors.append(f"Row {row_num}: ...") with records_failed += 1
WithRecordError(rep, kind, row_num) ==
  [rep EXCEPT !.records_failed = @ + 1,
              !.errors = Append(@, [kind |-> kind, row |-> row_num])]

-----------------------------------------------------------------------------
(* History of a call, kept for stating the properties *)

\* hist.before   the database when the call started
\* hist.rows     records the reader delivered (entries of the YAML document)
\* hist.bad      how many of them fail field-level validation
\* hist.src      the raw records among them that pass validation, in order
\* hist.docOk    the YAML document is a mapping with a well-formed report_date
\* hist.outcome  "none" | "running" | "committed" | "file_error" | "unknown_format"
NewHist(outcome) ==
  [before |-> db, rows |-> 0, bad |-> 0, src |-> <<>>, docOk |-> TRUE,
   outcome |-> outcome]

\* The first custodian a record carried for each account: `all` over every
\* valid record a handler processed, `kept` over those of calls that committed,
\* `tx` the same with the records of the call in progress.
NoteFirst(F, account_id, custodian) ==
  IF Truthy(custodian) /\ \A e \in F : e.account_id # account_id
  THEN F \cup {[account_id |-> account_id, custodian |-> Val(custodian)]}
  ELSE F

NoteRecord(account_id, custodian) ==
  [firsts EXCEPT !.all = NoteFirst(@, account_id, custodian),
                 !.tx = NoteFirst(@, account_id, custodian)]

-----------------------------------------------------------------------------
(* ingestion.py: the handlers, one action per step of a call *)

\* The requests the server handles at a time.
Requests == {1, 2}

Init ==
  /\ db = [accounts |-> {}, trades |-> <<>>, positions |-> <<>>]
  /\ sess = [accounts |-> {}, trades |-> <<>>, positions |-> <<>>]
  /\ pc = "idle"
  /\ fmt = ""
  /\ report = DataQualityReport("")
  /\ custodians = {}
  /\ todo = <<>>
  /\ reportDate = 0
  /\ hist = [before |-> [accounts |-> {}, trades |-> <<>>, positions |-> <<>>],
             rows |-> 0, bad |-> 0, src |-> <<>>, docOk |-> TRUE,
             outcome |-> "none"]
  /\ firsts = [all |-> {}, kept |-> {}, tx |-> {}]
  /\ used = 0
  /\ resp = None
  /\ shared = <<>>
  /\ txn = [s \in Requests |-> <<>>]
  /\ at = [s \in Requests |-> "idle"]
  /\ file = [s \in Requests |-> 0]
  /\ calls = 0
  /\ ended = {}
  /\ seen = None
  /\ mirror = [accounts |-> {}, trades |-> <<>>, positions |-> <<>>]
  /\ accts = {}
  /\ made = [s \in Requests |-> {}]

\* A call may start: no call is running.
CanStart == pc = "idle"

\* The outer except clause: rollback, one file-level error, return.
FileProcessingError(rep) ==
  /\ sess' = AfterFileError
  /\ report' = WithFileError(rep)
  /\ pc' = "idle"
  /\ firsts' = [firsts EXCEPT !.tx = firsts.kept]
  /\ UNCHANGED db
  /\ UNCHANGED cvars

\* ingest_file with a format string that names no handler.
IngestUnknownFormat(file_format) ==
  /\ CanStart
  /\ Handler(file_format) = "unknown"
  /\ report' = [DataQualityReport(file_format) EXCEPT
                  !.errors = <<[kind |-> "Unknown file format", row |-> 0]>>]
  /\ fmt' = file_format
  /\ hist' = NewHist("unknown_format")
  /\ resp' = None
  /\ UNCHANGED <<db, sess, pc, custodians, todo, reportDate, firsts, used>>
  /\ UNCHANGED cvars

\* ingest_file with a known format whose file cannot be opened.
OpenFails(file_format) ==
  /\ CanStart
  /\ Handler(file_format) # "unknown"
  /\ fmt' = file_format
  /\ custodians' = {}
  /\ hist' = NewHist("file_error")
  /\ resp' = None
  /\ FileProcessingError(DataQualityReport(file_format))
  /\ UNCHANGED <<todo, reportDate, used>>

\* ingest_trade_format1 / ingest_trade_format2 up to the first row.
OpenCsv(file_format) ==
  /\ CanStart
  /\ Handler(file_format) \in CsvHandlers
  /\ fmt' = file_format
  /\ report' = DataQualityReport(file_format)
  /\ custodians' = {}
  /\ hist' = NewHist("running")
  /\ pc' = "rows"
  /\ resp' = None
  /\ UNCHANGED <<db, sess, todo, reportDate, firsts, used>>
  /\ UNCHANGED cvars

\* One iteration of the row loop of ingest_trade_format1.
ReadRowFormat1(row) ==
  /\ pc = "rows" /\ Handler(fmt) = "ingest_trade_format1"
  /\ hist.rows < MaxRows /\ used < MaxRecords
  /\ used' = used + 1
  /\ IF TradeFormat1Valid(row)
     THEN LET validated == TradeFormat1(row)
              accounts == ensure_account_exists(sess.accounts, validated.account_id, None)
              trade == Format1Trade(validated, report.file_format)
          IN /\ sess' = [sess EXCEPT !.accounts = accounts,
                                     !.trades = SessionAdd(@, trade)]
             /\ report' = [report EXCEPT
                   !.records_processed = @ + 1,
                   !.new_accounts_created =
                       @ + NewAccountIncrement(accounts, validated.account_id),
                   !.records_valid = @ + 1]
             /\ hist' = [hist EXCEPT !.rows = @ + 1, !.src = Append(@, row)]
             /\ firsts' = NoteRecord(validated.account_id, None)
     ELSE /\ report' = WithRecordError(
                   [report EXCEPT !.records_processed = @ + 1], "Row", hist.rows + 2)
          /\ hist' = [hist EXCEPT !.rows = @ + 1, !.bad = @ + 1]
          /\ sess' = AfterRecordError
          /\ UNCHANGED firsts
  /\ UNCHANGED <<db, pc, fmt, custodians, todo, reportDate, resp>>
  /\ UNCHANGED cvars

\* One iteration of the row loop of ingest_trade_format2.
ReadRowFormat2(row) ==
  /\ pc = "rows" /\ Handler(fmt) = "ingest_trade_format2"
  /\ hist.rows < MaxRows /\ used < MaxRecords
  /\ used' = used + 1
  /\ IF TradeFormat2Valid(row)
     THEN LET validated == TradeFormat2(row)
              accounts == ensure_account_exists(
                  sess.accounts, validated.account_id, Some(validated.source_system))
              trade == Format2Trade(validated, report.file_format)
          IN /\ custodians' = custodians \cup {validated.source_system}
             /\ sess' = [sess EXCEPT !.accounts = accounts,
                                     !.trades = SessionAdd(@, trade)]
             /\ report' = [report EXCEPT
                   !.records_processed = @ + 1,
                   !.new_accounts_created =
                       @ + NewAccountIncrement(accounts, validated.account_id),
                   !.records_valid = @ + 1]
             /\ hist' = [hist EXCEPT !.rows = @ + 1, !.src = Append(@, row)]
             /\ firsts' = NoteRecord(validated.account_id, Some(validated.source_system))
     ELSE /\ report' = WithRecordError(
                   [report EXCEPT !.records_processed = @ + 1], "Row", hist.rows + 2)
          /\ hist' = [hist EXCEPT !.rows = @ + 1, !.bad = @ + 1]
          /\ sess' = AfterRecordError
          /\ UNCHANGED <<firsts, custodians>>
  /\ UNCHANGED <<db, pc, fmt, todo, reportDate, resp>>
  /\ UNCHANGED cvars

\* The csv reader raises while the rows are iterated (csv.Error, a decoding
\* error): the outer except clause runs.
ReaderError ==
  /\ pc = "rows" /\ Handler(fmt) \in CsvHandlers
  /\ hist' = [hist EXCEPT !.outcome = "file_error"]
  /\ FileProcessingError(report)
  /\ UNCHANGED <<fmt, custodians, todo, reportDate, used, resp>>

\* The entries of a document that pass / fail BankPosition's validation.
ValidEntries(doc) == SelectSeq(doc.positions, BankPositionValid)
InvalidEntries(doc) == SelectSeq(doc.positions, LAMBDA e : ~BankPositionValid(e))

\* ingest_bank_positions up to the loop: yaml.safe_load and
\* BankPositionFile(**data), which validates every entry of the document.
LoadYaml(file_format, doc) ==
  /\ CanStart
  /\ Handler(file_format) = "ingest_bank_positions"
  /\ used + Len(doc.positions) <= MaxRecords
  /\ used' = used + Len(doc.positions)
  /\ fmt' = file_format
  /\ custodians' = {}
  /\ resp' = None
  /\ LET h == [NewHist("running") EXCEPT
                 !.rows = Len(doc.positions),
                 !.bad = Len(InvalidEntries(doc)),
                 !.src = ValidEntries(doc),
                 !.docOk = doc.wellformed /\ doc.report_date.style = "compact"]
     IN IF BankPositionFileValid(doc)
        THEN LET validated_file == BankPositionFile(doc)
             IN /\ todo' = validated_file.positions
                /\ reportDate' = validated_file.report_date
                /\ report' = DataQualityReport(file_format)
                /\ pc' = "rows"
                /\ hist' = h
                /\ UNCHANGED <<db, sess, firsts>>
        ELSE /\ hist' = [h EXCEPT !.outcome = "file_error"]
             /\ FileProcessingError(DataQualityReport(file_format))
             /\ UNCHANGED <<todo, reportDate>>
  /\ UNCHANGED cvars

\* One iteration of the loop of ingest_bank_positions. Nothing in the body
\* raises on a validated entry, so its except clause is never entered.
NextBankPosition ==
  /\ pc = "rows" /\ Handler(fmt) = "ingest_bank_positions" /\ todo # <<>>
  /\ LET position_data == Head(todo)
         custodian == extract_custodian_name(Some(position_data.custodian_ref))
         accounts == ensure_account_exists(
             sess.accounts, position_data.account_id, custodian)
         position == BankPositionRecord(position_data, reportDate)
     IN /\ custodians' = IF Truthy(custodian)
                         THEN custodians \cup {Val(custodian)} ELSE custodians
        /\ sess' = [sess EXCEPT !.accounts = accounts,
                                !.positions = SessionAdd(@, position)]
        /\ report' = [report EXCEPT
              !.records_processed = @ + 1,
              !.new_accounts_created =
                  @ + NewAccountIncrement(accounts, position_data.account_id),
              !.records_valid = @ + 1]
        /\ firsts' = NoteRecord(position_data.account_id, custodian)
  /\ todo' = Tail(todo)
  /\ UNCHANGED <<db, pc, fmt, reportDate, hist, used, resp>>
  /\ UNCHANGED cvars

\* The loop is over: the reader is exhausted, or every entry was processed.
LoopDone == pc = "rows" /\ (Handler(fmt) = "ingest_bank_positions" => todo = <<>>)

\* session.commit() succeeds; the handler returns its report.
Commit ==
  /\ LoopDone
  /\ db' = sess
  /\ report' = IF Handler(fmt) \in {"ingest_trade_format2", "ingest_bank_positions"}
               THEN [report EXCEPT !.custodians_detected = SortedTexts(custodians)]
               ELSE report
  /\ pc' = "idle"
  /\ hist' = [hist EXCEPT !.outcome = "committed"]
  /\ firsts' = [firsts EXCEPT !.kept = firsts.tx]
  /\ UNCHANGED <<sess, fmt, custodians, todo, reportDate, used, resp>>
  /\ UNCHANGED cvars

\* session.commit() raises: the outer except clause runs.
CommitFails ==
  /\ LoopDone
  /\ hist' = [hist EXCEPT !.outcome = "file_error"]
  /\ FileProcessingError(report)
  /\ UNCHANGED <<fmt, custodians, todo, reportDate, used, resp>>

-----------------------------------------------------------------------------
(* app.py: the query handlers, which read the committed database *)

\* A wrong filter: the trades of every date.
TradesOfAnyDate(query_date) == db.trades

\* session.query(Trade).filter(Trade.trade_date <= query_date).all()
TradesUpTo(query_date) ==
  SelectSeq(db.trades, LAMBDA t : t.trade_date <= query_date)

\* session.query(Position).filter(Position.report_date == query_date).all()
PositionsOn(query_date) ==
  SelectSeq(db.positions, LAMBDA p : p.report_date = query_date)

\* sorted() of a set of identifiers.
RECURSIVE SortedStrs(_)
SortedStrs(S) ==
  IF S = {} THEN <<>>
  ELSE LET m == CHOOSE x \in S : \A y \in S : StrRank(x) <= StrRank(y)
       IN <<m>> \o SortedStrs(S \ {m})

\* `<=` on (account_id, ticker) tuples.
KeyLeq(k1, k2) ==
  \/ StrLess(k1[1], k2[1])
  \/ k1[1] = k2[1] /\ StrRank(k1[2]) <= StrRank(k2[2])

\* sorted() of a set of (account_id, ticker) keys.
RECURSIVE SortedKeys(_)
SortedKeys(S) ==
  IF S = {} THEN <<>>
  ELSE LET m == CHOOSE x \in S : \A y \in S : KeyLeq(x, y)
       IN <<m>> \o SortedKeys(S \ {m})

\* sorted(positions_list, key=ticker): a stable sort.
RECURSIVE InsertByTicker(_, _)
InsertByTicker(sorted, x) ==
  IF sorted = <<>> THEN <<x>>
  ELSE IF StrRank(Head(sorted).ticker) <= StrRank(x.ticker)
       THEN <<Head(sorted)>> \o InsertByTicker(Tail(sorted), x)
       ELSE <<x>> \o sorted

RECURSIVE SortedByTicker(_)
SortedByTicker(s) ==
  IF s = <<>> THEN <<>>
  ELSE InsertByTicker(SortedByTicker(SubSeq(s, 1, Len(s) - 1)), s[Len(s)])

RECURSIVE Concat(_)
Concat(ss) == IF ss = <<>> THEN <<>> ELSE Head(ss) \o Concat(Tail(ss))

\* The keys of the dict built over the trades, and expected_positions[key].
TradeKeys(trades) == {<<trades[i].account_id, trades[i].ticker>> : i \in 1..Len(trades)}

ExpectedShares(trades, key) ==
  SumSeq([i \in 1..Len(trades) |->
            IF <<trades[i].account_id, trades[i].ticker>> = key
            THEN trades[i].quantity ELSE 0])

\* The keys of bank_positions_map, and bank_positions_map[key]: the shares of
\* the last row of the key, each row overwriting the entry of the one before.
BankKeys(positions) ==
  {<<positions[i].account_id, positions[i].ticker>> : i \in 1..Len(positions)}

BankShares(positions, key) ==
  LET rows == {i \in 1..Len(positions) :
                 <<positions[i].account_id, positions[i].ticker>> = key}
      last == CHOOSE i \in rows : \A j \in rows : j <= i
  IN positions[last].shares

\* A wrong status rule: the two "missing" labels exchanged.
DiscrepancyStatusSwapped(expected, actual) ==
  IF actual = 0 THEN "missing_in_trades"
  ELSE IF expected = 0 THEN "missing_in_bank"
  ELSE "quantity_mismatch"

\* "status" of a discrepancy.
DiscrepancyStatus(expected, actual) ==
  IF actual = 0 THEN "missing_in_bank"
  ELSE IF expected = 0 THEN "missing_in_trades"
  ELSE "quantity_mismatch"

\* A wrong filter: the trades of every date are summed.
ReconciliationTradesAllDates(query_date) == db.trades

\* The trades the reconciliation sums.
ReconciliationTrades(query_date) == TradesUpTo(query_date)

\* The comparison of reconciliation(), over the rows its two queries returned.
Discrepancies(trades, bank_positions) ==
  LET all_keys == SortedKeys(TradeKeys(trades) \cup BankKeys(bank_positions))
      Row(key) ==
        LET expected == IF key \in TradeKeys(trades)
                        THEN ExpectedShares(trades, key) ELSE 0
            actual == IF key \in BankKeys(bank_positions)
                      THEN BankShares(bank_positions, key) ELSE 0
        IN [account_id |-> key[1],
            ticker |-> key[2],
            expected_shares |-> expected,
            actual_shares |-> actual,
            difference |-> actual - expected,
            status |-> DiscrepancyStatus(expected, actual)]
  IN SelectSeq([i \in 1..Len(all_keys) |-> Row(all_keys[i])],
               LAMBDA r : r.expected_shares # r.actual_shares)

\* reconciliation(): the list "discrepancies" of the response.
reconciliation(query_date) ==
  Discrepancies(ReconciliationTrades(query_date), PositionsOn(query_date))

\* threshold = Decimal("0.20"), in percent.
ThresholdPct == 20

\* Python truth value of an optional Decimal: neither None nor zero.
TruthyNum(o) == ~IsNone(o) /\ Val(o) # 0

\* What one trade adds to positions_map[key]['total_value'].
TradeValue(trade) ==
  IF TruthyNum(trade.price) THEN Val(trade.price) * trade.quantity
  ELSE IF TruthyNum(trade.market_value) THEN Val(trade.market_value)
  ELSE 0

\* positions_map[key]['total_value'] over the trades.
TotalValue(trades, key) ==
  SumSeq([i \in 1..Len(trades) |->
            IF <<trades[i].account_id, trades[i].ticker>> = key
            THEN TradeValue(trades[i]) ELSE 0])

\* account_positions[account_id] of the trade derivation: the aggregates of
\* the account whose share count is not zero. The code lists them in the order
\* the keys first occur; the list is sorted by ticker before it is read and an
\* account has one aggregate per ticker, so the order is immaterial.
TradePositionsOf(trades, account_id) ==
  LET keys == SortedKeys({k \in TradeKeys(trades) :
                            k[1] = account_id /\ ExpectedShares(trades, k) # 0})
  IN [i \in 1..Len(keys) |->
        [ticker |-> keys[i][2],
         shares |-> ExpectedShares(trades, keys[i]),
         market_value |-> TotalValue(trades, keys[i])]]

\* A wrong total: a short position counts with its magnitude.
AccountTotalOfMagnitudes(positions_list) ==
  SumSeq([i \in 1..Len(positions_list) |-> Abs(positions_list[i].market_value)])

\* A wrong total: every position of the account is summed, short ones too.
AccountTotalOfAll(positions_list) ==
  SumSeq([i \in 1..Len(positions_list) |-> positions_list[i].market_value])

\* total_value = sum(market_value for p in positions_list if market_value > 0)
AccountTotal(positions_list) ==
  SumSeq([i \in 1..Len(positions_list) |->
            IF positions_list[i].market_value > 0
            THEN positions_list[i].market_value ELSE 0])

\* A wrong comparison: a position at exactly the threshold is flagged too.
OverThresholdInclusive(market_value, total_value) ==
  total_value > 0 /\ market_value * 100 >= ThresholdPct * total_value

\* concentration > threshold, concentration being market_value / total_value
\* when total_value > 0 and 0 otherwise.
OverThreshold(market_value, total_value) ==
  total_value > 0 /\ market_value * 100 > ThresholdPct * total_value

\* A violation. The percentages are fractions [num, den]: concentration_pct is
\* market_value * 100 / total_value.
Violation(account_id, pos, total_value) ==
  [account_id |-> account_id,
   ticker |-> pos.ticker,
   shares |-> pos.shares,
   market_value |-> pos.market_value,
   account_total_value |-> total_value,
   concentration_pct |-> [num |-> pos.market_value * 100, den |-> total_value],
   excess_pct |-> [num |-> pos.market_value * 100 - ThresholdPct * total_value,
                   den |-> total_value]]

\* The "Check violations" loop of the trade derivation for one account.
TradeViolationsOf(account_id, positions_list) ==
  LET total_value == AccountTotal(positions_list)
      flagged == SelectSeq(SortedByTicker(positions_list), LAMBDA pos :
                   pos.market_value > 0 /\ OverThreshold(pos.market_value, total_value))
  IN [i \in 1..Len(flagged) |-> Violation(account_id, flagged[i], total_value)]

\* The block that fills violations_from_trades: it reads the list `trades` and
\* nothing else.
TradeViolations(trades) ==
  LET accounts == SortedStrs({k[1] : k \in {k \in TradeKeys(trades) :
                                             ExpectedShares(trades, k) # 0}})
  IN Concat([i \in 1..Len(accounts) |->
               TradeViolationsOf(accounts[i], TradePositionsOf(trades, accounts[i]))])

\* violations_from_trades
ViolationsFromTrades(query_date) == TradeViolations(TradesUpTo(query_date))

\* account_positions_bank[account_id]: the rows of the account, in query order.
BankPositionsOf(bank_positions, account_id) ==
  SelectSeq(bank_positions, LAMBDA p : p.account_id = account_id)

\* The "Check violations" loop of the bank derivation for one account.
BankViolationsOf(account_id, positions_list) ==
  LET total_value == AccountTotal(positions_list)
      flagged == SelectSeq(SortedByTicker(positions_list), LAMBDA pos :
                   pos.market_value > 0 /\ OverThreshold(pos.market_value, total_value))
  IN [i \in 1..Len(flagged) |->
        [custodian_ref |-> flagged[i].custodian_ref]
          @@ Violation(account_id, flagged[i], total_value)]

\* The block that fills violations_from_bank: it reads the list
\* `bank_positions` and nothing else.
BankViolations(bank_positions) ==
  LET accounts == SortedStrs({bank_positions[i].account_id :
                                i \in 1..Len(bank_positions)})
  IN Concat([i \in 1..Len(accounts) |->
               BankViolationsOf(accounts[i],
                                BankPositionsOf(bank_positions, accounts[i]))])

\* violations_from_bank
ViolationsFromBank(query_date) == BankViolations(PositionsOn(query_date))

\* compliance_concentration(): the two lists of the response.
compliance_concentration(query_date) ==
  [from_trades |-> ViolationsFromTrades(query_date),
   from_bank |-> ViolationsFromBank(query_date)]

\* session.query(Position).filter(account_id, report_date).all() of get_positions
PositionsOf(account_id, query_date) ==
  SelectSeq(db.positions, LAMBDA p :
    p.account_id = account_id /\ p.report_date = query_date)

\* A wrong query: the trades of the account of every date.
TradesOfAccountAnyDate(account_id, query_date) ==
  SelectSeq(db.trades, LAMBDA t : t.account_id = account_id)

\* session.query(Trade).filter(account_id, trade_date <= query_date).all()
TradesOfAccount(account_id, query_date) ==
  SelectSeq(db.trades, LAMBDA t :
    t.account_id = account_id /\ t.trade_date <= query_date)

\* The trades of one ticker of the account up to the date. The code orders
\* them by trade_date and only sums over them.
TradesOfTicker(account_id, ticker, query_date) ==
  SelectSeq(TradesOfAccount(account_id, query_date), LAMBDA t : t.ticker = ticker)

\* A wrong cost: the signed quantity, so that a sale lowers total_cost.
TradeCostSigned(trade) ==
  IF TruthyNum(trade.price) THEN Val(trade.price) * trade.quantity
  ELSE IF TruthyNum(trade.market_value) THEN Val(trade.market_value)
  ELSE 0

\* What one trade adds to total_cost.
TradeCost(trade) ==
  IF TruthyNum(trade.price) THEN Val(trade.price) * Abs(trade.quantity)
  ELSE IF TruthyNum(trade.market_value) THEN Abs(Val(trade.market_value))
  ELSE 0

TotalCost(trades) == SumSeq([i \in 1..Len(trades) |-> TradeCost(trades[i])])

TotalShares(trades) == SumSeq([i \in 1..Len(trades) |-> trades[i].quantity])

\* cost_basis = total_cost / total_shares if total_shares != 0 else 0, as a
\* fraction [num, den].
CostBasis(total_cost, total_shares) ==
  IF total_shares # 0 THEN [num |-> total_cost, den |-> total_shares]
  ELSE [num |-> 0, den |-> 1]

\* The keys of positions_map in insertion order: the tickers in the order they
\* first occur in the trades.
RECURSIVE TickersInOrder(_)
TickersInOrder(trades) ==
  IF trades = <<>> THEN <<>>
  ELSE LET before == TickersInOrder(SubSeq(trades, 1, Len(trades) - 1))
           ticker == trades[Len(trades)].ticker
       IN IF ticker \in Range(before) THEN before ELSE Append(before, ticker)

\* A wrong test: an account whose trades all net to zero has "no data" too.
NoDataOrNothingHeld(trades, held) == trades = <<>> \/ held = <<>>

\* `if not trades`: the account has no trade up to the date.
NoData(trades, held) == trades = <<>>

\* A wrong filter: closed positions are listed too.
AnyShareCount(shares) == TRUE

\* `if data["shares"] != 0`: only non-zero positions are listed.
NonZeroShares(shares) == shares # 0

\* calculate_positions_from_trades(session, account_id, query_date). A key the
\* response does not carry is None.
calculate_positions_from_trades(account_id, query_date) ==
  LET trades == TradesOfAccount(account_id, query_date)
      held == SelectSeq(TickersInOrder(trades), LAMBDA ticker :
                NonZeroShares(TotalShares(TradesOfTicker(account_id, ticker, query_date))))
      Item(ticker) ==
        LET mine == TradesOfTicker(account_id, ticker, query_date)
        IN [ticker |-> ticker,
            shares |-> TotalShares(mine),
            cost_basis |-> CostBasis(TotalCost(mine), TotalShares(mine)),
            total_cost |-> TotalCost(mine),
            market_value |-> None,
            note |-> "Calculated from trades; no current market value"]
  IN IF NoData(trades, held)
     THEN [status |-> 404,
           account_id |-> account_id,
           date |-> query_date,
           positions |-> <<>>,
           total_market_value |-> Some(0),
           note |-> Some("No trade or position data found")]
     ELSE [status |-> 200,
           account_id |-> account_id,
           date |-> query_date,
           positions |-> [i \in 1..Len(held) |-> Item(held[i])],
           total_market_value |-> None,
           note |-> Some("Calculated from trade history; no position file data available")]

\* get_positions(): the response for (account, date).
get_positions(account_id, query_date) ==
  LET positions == PositionsOf(account_id, query_date)
      Item(pos) ==
        LET mine == TradesOfTicker(account_id, pos.ticker, query_date)
        IN [ticker |-> pos.ticker,
            shares |-> pos.shares,
            market_value |-> Some(pos.market_value),
            cost_basis |-> CostBasis(TotalCost(mine), TotalShares(mine)),
            total_cost |-> TotalCost(mine),
            unrealized_pnl |-> pos.market_value - TotalCost(mine),
            custodian_ref |-> pos.custodian_ref]
  IN IF positions = <<>>
     THEN calculate_positions_from_trades(account_id, query_date)
     ELSE [status |-> 200,
           account_id |-> account_id,
           date |-> query_date,
           positions |-> [i \in 1..Len(positions) |-> Item(positions[i])],
           total_market_value |->
             Some(SumSeq([i \in 1..Len(positions) |-> positions[i].market_value])),
           note |-> None]

\* GET /reconciliation?date=query_date
Reconciliation(query_date) ==
  /\ pc = "idle"
  /\ resp' = Some([op |-> "reconciliation", date |-> query_date,
                   discrepancies |-> reconciliation(query_date),
                   violations |-> [from_trades |-> <<>>, from_bank |-> <<>>]])
  /\ UNCHANGED <<db, sess, pc, fmt, report, custodians, todo, reportDate, hist,
                 firsts, used>>
  /\ UNCHANGED cvars

\* GET /compliance/concentration?date=query_date
ComplianceConcentration(query_date) ==
  /\ pc = "idle"
  /\ resp' = Some([op |-> "compliance_concentration", date |-> query_date,
                   discrepancies |-> <<>>,
                   violations |-> compliance_concentration(query_date)])
  /\ UNCHANGED <<db, sess, pc, fmt, report, custodians, todo, reportDate, hist,
                 firsts, used>>
  /\ UNCHANGED cvars

\* A wrong handler: what the fallback derives is stored as snapshot rows.
GetPositionsStoring(account_id, query_date) ==
  LET body == get_positions(account_id, query_date)
      derived == SelectSeq(body.positions, LAMBDA e : IsNone(e.market_value))
  IN /\ pc = "idle"
     /\ resp' = Some([op |-> "get_positions", date |-> query_date,
                      account_id |-> account_id, body |-> body])
     /\ db' = [db EXCEPT !.positions = @ \o
                 [i \in 1..Len(derived) |->
                    [report_date |-> query_date,
                     account_id |-> account_id,
                     ticker |-> derived[i].ticker,
                     shares |-> derived[i].shares,
                     market_value |-> 0,
                     custodian_ref |-> None]]]
     /\ UNCHANGED <<sess, pc, fmt, report, custodians, todo, reportDate, hist,
                    firsts, used>>
     /\ UNCHANGED cvars

\* GET /positions?account=account_id&date=query_date
GetPositions(account_id, query_date) ==
  /\ pc = "idle"
  /\ resp' = Some([op |-> "get_positions", date |-> query_date,
                   account_id |-> account_id,
                   body |-> get_positions(account_id, query_date)])
  /\ UNCHANGED <<db, sess, pc, fmt, report, custodians, todo, reportDate, hist,
                 firsts, used>>
  /\ UNCHANGED cvars

-----------------------------------------------------------------------------
(* Inputs of the ingestion specification *)

AccountIds == {"ACC001", "ACC002"}

F1Row(day, acc, tkr, q, p, typ, settle) ==
  [TradeDate |-> day, AccountID |-> acc, Ticker |-> tkr, Quantity |-> q,
   Price |-> p, TradeType |-> typ, SettlementDate |-> settle]

F2Row(day, acc, tkr, shares, mv, src) ==
  [REPORT_DATE |-> day, ACCOUNT_ID |-> acc, SECURITY_TICKER |-> tkr,
   SHARES |-> shares, MARKET_VALUE |-> mv, SOURCE_SYSTEM |-> src]

Entry(acc, tkr, shares, mv, ref) ==
  [account_id |-> acc, ticker |-> tkr, shares |-> shares, market_value |-> mv,
   custodian_ref |-> ref]

CUST_A_12345 == <<"CUST", "_", "A", "_", "12345">>
CUST_B_22345 == <<"CUST", "_", "B", "_", "22345">>
CUSTX == <<"CUSTX">>

\* Format 1 rows: valid ones, then one row per way of failing validation
\* (Quantity not above 0, an unknown TradeType, settlement before trade).
Format1Rows ==
  {F1Row(IsoDate(1), a, "AAPL", Some(2), Some(100), t, IsoDate(1)) :
      a \in AccountIds, t \in TradeTypes}
  \cup {F1Row(IsoDate(1), "ACC001", "AAPL", Some(0), Some(100), "BUY", IsoDate(1)),
        F1Row(IsoDate(1), "ACC002", "AAPL", Some(2), Some(100), "HOLD", IsoDate(1)),
        F1Row(IsoDate(2), "ACC001", "AAPL", Some(2), Some(100), "SELL", IsoDate(1))}

\* Format 2 rows: valid ones, then an empty SOURCE_SYSTEM and a SHARES field
\* that is no integer.
Format2Rows ==
  {F2Row(CompactDate(1), a, "AAPL", Some(2), Some(200), c) :
      a \in AccountIds, c \in {CUSTODIAN_A, CUSTODIAN_B}}
  \cup {F2Row(CompactDate(1), "ACC001", "AAPL", Some(2), Some(200), <<>>),
        F2Row(CompactDate(1), "ACC002", "AAPL", None, Some(200), CUSTODIAN_A)}

\* Entries of a YAML document: valid ones (one whose custodian_ref has a single
\* segment), then an empty account_id and a shares field that is no integer.
BankEntries ==
  {Entry(a, "AAPL", Some(2), Some(200), Some(r)) :
      a \in AccountIds, r \in {CUST_A_12345, CUST_B_22345}}
  \cup {Entry("ACC001", "MSFT", Some(1), Some(100), Some(CUSTX)),
        Entry("", "AAPL", Some(2), Some(200), Some(CUST_A_12345)),
        Entry("ACC002", "AAPL", None, Some(200), Some(CUST_B_22345))}

\* YAML documents: every list of entries, a document that is no mapping and
\* one whose report_date is not eight digits.
Documents(entries) ==
  {[wellformed |-> TRUE, report_date |-> CompactDate(1), positions |-> ps] :
      ps \in SeqsUpTo(entries, MaxRows)}
  \cup {[wellformed |-> FALSE, report_date |-> CompactDate(1), positions |-> <<>>],
        [wellformed |-> TRUE, report_date |-> IsoDate(1), positions |-> <<>>]}

BankDocuments == Documents(BankEntries)

FormatStrings == KnownFormats \cup {"csv_format1", "XML"}

\* ingest_file routed to ingest_bank_positions, for each document of `docs`.
IngestYaml(file_format, docs) ==
  /\ CanStart
  /\ Handler(file_format) = "ingest_bank_positions"
  /\ \E doc \in docs : LoadYaml(file_format, doc)

Next ==
  \/ \E f \in FormatStrings : IngestUnknownFormat(f)
  \/ \E f \in FormatStrings : OpenFails(f)
  \/ \E f \in FormatStrings : OpenCsv(f)
  \/ \E row \in Format1Rows : ReadRowFormat1(row)
  \/ \E row \in Format2Rows : ReadRowFormat2(row)
  \/ ReaderError
  \/ \E f \in FormatStrings : IngestYaml(f, BankDocuments)
  \/ NextBankPosition
  \/ Commit
  \/ CommitFails

Spec == Init /\ [][Next]_vars

-----------------------------------------------------------------------------
(* Inputs of the query specification: records chosen so that quantities    *)
(* net out, dates fall on both sides of a query date, a position sits at   *)
(* exactly 20% of its account, positions are short, signs of shares and    *)
(* value disagree, a key has several snapshot rows, a snapshot row has no  *)
(* shares but a value, and one trade comes in both trade formats.          *)

Format1RowsQ ==
  {F1Row(IsoDate(1), "ACC001", "AAPL", Some(3), Some(100), "BUY", IsoDate(1)),
   F1Row(IsoDate(1), "ACC001", "AAPL", Some(1), Some(100), "SELL", IsoDate(1)),
   F1Row(IsoDate(2), "ACC001", "MSFT", Some(1), Some(100), "BUY", IsoDate(2)),
   F1Row(IsoDate(1), "ACC002", "AAPL", Some(1), Some(100), "SELL", IsoDate(1)),
   F1Row(IsoDate(1), "ACC002", "AAPL", Some(0), Some(100), "BUY", IsoDate(1))}

Format2RowsQ ==
  {F2Row(CompactDate(1), "ACC001", "MSFT", Some(1), Some(800), CUSTODIAN_A),
   F2Row(CompactDate(1), "ACC001", "MSFT", Some(-1), Some(-100), CUSTODIAN_A),
   F2Row(CompactDate(1), "ACC001", "AAPL", Some(0), Some(300), CUSTODIAN_A),
   F2Row(CompactDate(1), "ACC001", "AAPL", Some(3), Some(300), CUSTODIAN_A)}

BankEntriesQ ==
  {Entry("ACC001", "AAPL", Some(2), Some(200), Some(CUST_A_12345)),
   Entry("ACC001", "AAPL", Some(3), Some(300), Some(CUST_A_12345)),
   Entry("ACC001", "MSFT", Some(1), Some(800), Some(CUST_A_12345)),
   Entry("ACC001", "MSFT", Some(-1), Some(-100), Some(CUST_A_12345)),
   Entry("ACC001", "MSFT", Some(-1), Some(100), Some(CUST_A_12345)),
   Entry("ACC002", "AAPL", Some(0), Some(100), Some(CUST_B_22345))}

BankDocumentsQ ==
  {[wellformed |-> TRUE, report_date |-> CompactDate(1), positions |-> ps] :
      ps \in SeqsUpTo(BankEntriesQ, MaxRows)}

QueryDates == {1, 2}

QNext ==
  \/ OpenCsv("CSV_FORMAT1")
  \/ OpenCsv("PIPE_FORMAT2")
  \/ \E row \in Format1RowsQ : ReadRowFormat1(row)
  \/ \E row \in Format2RowsQ : ReadRowFormat2(row)
  \/ IngestYaml("YAML_POSITIONS", BankDocumentsQ)
  \/ NextBankPosition
  \/ Commit
  \/ \E d \in QueryDates : Reconciliation(d)
  \/ \E d \in QueryDates : ComplianceConcentration(d)
  \/ \E a \in AccountIds, d \in QueryDates : GetPositions(a, d)

QSpec == Init /\ [][QNext]_vars

-----------------------------------------------------------------------------
(* Inputs of the positions specification: a Format 2 row whose price rounds *)
(* to 0.00, one without shares, a sale, a trade after the query date, and  *)
(* snapshot rows with and without trades behind them.                      *)

Format1RowsP ==
  {F1Row(IsoDate(1), "ACC001", "AAPL", Some(2), Some(100), t, IsoDate(1)) :
     t \in TradeTypes}

Format2RowsP ==
  {F2Row(CompactDate(1), "ACC001", "AAPL", Some(3), Some(1), CUSTODIAN_A),
   F2Row(CompactDate(1), "ACC001", "AAPL", Some(-1), Some(-100), CUSTODIAN_A),
   F2Row(CompactDate(1), "ACC001", "AAPL", Some(0), Some(300), CUSTODIAN_A),
   F2Row(CompactDate(2), "ACC001", "AAPL", Some(2), Some(200), CUSTODIAN_A)}

BankEntriesP ==
  {Entry("ACC001", "AAPL", Some(2), Some(200), Some(CUST_A_12345)),
   Entry("ACC001", "MSFT", Some(1), Some(100), Some(CUST_A_12345))}

BankDocumentsP ==
  {[wellformed |-> TRUE, report_date |-> CompactDate(1), positions |-> ps] :
      ps \in SeqsUpTo(BankEntriesP, MaxRows)}

PNext ==
  \/ OpenCsv("CSV_FORMAT1")
  \/ OpenCsv("PIPE_FORMAT2")
  \/ \E row \in Format1RowsP : ReadRowFormat1(row)
  \/ \E row \in Format2RowsP : ReadRowFormat2(row)
  \/ IngestYaml("YAML_POSITIONS", BankDocumentsP)
  \/ NextBankPosition
  \/ Commit
  \/ \E d \in QueryDates : GetPositions("ACC001", d)

PSpec == Init /\ [][PNext]_vars

-----------------------------------------------------------------------------
(* Concurrent requests: app.py runs every request on a session of its own  *)
(* (get_db_session), and the store isolates transactions: a session reads *)
(* the committed rows and its own writes. The calls are Format 1 calls;    *)
(* the three handlers add and commit alike.                                *)

\* What a query on a session of its own reads.
ReadCommitted == shared

\* The Trade a call adds for a row: source_file is the name of the temporary
\* file of the call.
StoredTrade(s, row) ==
  [source_file |-> file[s]] @@ Format1Trade(TradeFormat1(row), "CSV_FORMAT1")

\* The accounts a session sees: the committed ones and those it inserted.
AccountsSeenBy(s) ==
  accts \cup {[account_id |-> a, custodian_name |-> None] : a \in made[s]}

\* The account ids a session inserts for a row: ensure_account_exists finds
\* no account among those the session sees.
InsertedFor(s, row) ==
  {a.account_id :
     a \in ensure_account_exists(AccountsSeenBy(s), TradeFormat1(row).account_id, None)}
  \ {a.account_id : a \in AccountsSeenBy(s)}

LeaveIngestionAlone ==
  UNCHANGED <<db, sess, pc, fmt, report, custodians, todo, reportDate, hist,
              firsts, used, resp, mirror>>

\* POST /ingest: a session and a temporary file for the call.
BeginCall(s) ==
  /\ at[s] = "idle"
  /\ calls < MaxCalls
  /\ calls' = calls + 1
  /\ file' = [file EXCEPT ![s] = calls + 1]
  /\ at' = [at EXCEPT ![s] = "rows"]
  /\ txn' = [txn EXCEPT ![s] = <<>>]
  /\ made' = [made EXCEPT ![s] = {}]
  /\ UNCHANGED <<shared, ended, seen, accts>>
  /\ LeaveIngestionAlone

\* A wrong loop: the session commits after every row.
AddRowCommitting(s, row) ==
  /\ at[s] = "rows"
  /\ Len(txn[s]) < MaxPending
  /\ TradeFormat1Valid(row)
  /\ txn' = [txn EXCEPT ![s] = SessionAdd(@, StoredTrade(s, row))]
  /\ made' = [made EXCEPT ![s] = @ \cup InsertedFor(s, row)]
  /\ shared' = Append(shared, StoredTrade(s, row))
  /\ UNCHANGED <<at, file, calls, ended, seen, accts>>
  /\ LeaveIngestionAlone

\* One iteration of the row loop on a valid row: ensure_account_exists, then
\* session.add(trade).
AddRow(s, row) ==
  /\ at[s] = "rows"
  /\ Len(txn[s]) < MaxPending
  /\ TradeFormat1Valid(row)
  /\ txn' = [txn EXCEPT ![s] = SessionAdd(@, StoredTrade(s, row))]
  /\ made' = [made EXCEPT ![s] = @ \cup InsertedFor(s, row)]
  /\ UNCHANGED <<shared, at, file, calls, ended, seen, accts>>
  /\ LeaveIngestionAlone

\* The call returns: its session is closed.
EndCall(s, outcome) ==
  /\ ended' = ended \cup {[file |-> file[s], outcome |-> outcome,
                            wrote |-> txn[s], made |-> made[s]]}
  /\ txn' = [txn EXCEPT ![s] = <<>>]
  /\ made' = [made EXCEPT ![s] = {}]
  /\ at' = [at EXCEPT ![s] = "idle"]

\* An account the session inserted has been committed by another session
\* since: the primary key of accounts rejects the second insert.
PrimaryKeyConflict(s) == \E a \in accts : a.account_id \in made[s]

\* session.commit() after the loop, then the return.
CommitCall(s) ==
  /\ at[s] = "rows"
  /\ ~PrimaryKeyConflict(s)
  /\ shared' = shared \o txn[s]
  /\ accts' = AccountsSeenBy(s)
  /\ EndCall(s, "committed")
  /\ UNCHANGED <<file, calls, seen>>
  /\ LeaveIngestionAlone

\* The insert of the account fails on the primary key, at the flush or at the
\* commit: the outer except clause rolls the session back.
CommitConflict(s) ==
  /\ at[s] = "rows"
  /\ PrimaryKeyConflict(s)
  /\ EndCall(s, "integrity_error")
  /\ UNCHANGED <<shared, file, calls, seen, accts>>
  /\ LeaveIngestionAlone

\* The outer except clause (reader error, commit failure): session.rollback().
FailCall(s) ==
  /\ at[s] = "rows"
  /\ EndCall(s, "rolled_back")
  /\ UNCHANGED <<shared, file, calls, seen, accts>>
  /\ LeaveIngestionAlone

\* A query handler runs while calls are in progress.
ConcurrentQuery ==
  /\ seen' = Some(ReadCommitted)
  /\ UNCHANGED <<shared, txn, at, file, calls, ended, accts, made>>
  /\ LeaveIngestionAlone

ConcurrentRows ==
  {F1Row(IsoDate(1), "ACC001", "AAPL", Some(2), Some(100), t, IsoDate(1)) :
     t \in TradeTypes}

CNext ==
  \/ \E s \in Requests : BeginCall(s)
  \/ \E s \in Requests, row \in ConcurrentRows : AddRow(s, row)
  \/ \E s \in Requests : CommitCall(s)
  \/ \E s \in Requests : CommitConflict(s)
  \/ \E s \in Requests : FailCall(s)
  \/ ConcurrentQuery

CSpec == Init /\ [][CNext]_vars

-----------------------------------------------------------------------------
(* The helpers as functions: each is applied to every input of a bounded   *)
(* set and the call and its result are recorded in resp.                   *)

\* The longest custodian_ref tried, in characters.
MaxRefLen == 4

\* Custodian references: None, "" and every text of up to MaxRefLen characters
\* over an alphabet with the separator.
CustodianRefs ==
  {None} \cup {Some(t) : t \in SeqsUpTo({"C", "A", "_"}, MaxRefLen)}

\* extract_custodian_name(custodian_ref) is called and returns.
ExtractCustodianName(custodian_ref) ==
  /\ resp' = Some([op |-> "extract_custodian_name",
                   custodian_ref |-> custodian_ref,
                   name |-> extract_custodian_name(custodian_ref)])
  /\ UNCHANGED <<db, sess, pc, fmt, report, custodians, todo, reportDate, hist,
                 firsts, used>>
  /\ UNCHANGED cvars

HNext ==
  \E custodian_ref \in CustodianRefs : ExtractCustodianName(custodian_ref)

HSpec == Init /\ [][HNext]_vars

-----------------------------------------------------------------------------
(* Two stores fed the same trades: db as Format 1 files, mirror as Format 2 *)
(* files, and both the same position documents. A call is taken in one     *)
(* step: the loop of its handler over the records of the file, then the    *)
(* commit.                                                                  *)

\* ingest_trade_format1 on a store, the file holding `rows`.
RECURSIVE Format1Call(_, _)
Format1Call(store, rows) ==
  IF rows = <<>> THEN store
  ELSE LET row == Head(rows)
           validated == TradeFormat1(row)
       IN Format1Call(
            IF TradeFormat1Valid(row)
            THEN [store EXCEPT
                    !.accounts = ensure_account_exists(@, validated.account_id, None),
                    !.trades = SessionAdd(@, Format1Trade(validated, "CSV_FORMAT1"))]
            ELSE store,
            Tail(rows))

\* ingest_trade_format2 on a store, the file holding `rows`.
RECURSIVE Format2Call(_, _)
Format2Call(store, rows) ==
  IF rows = <<>> THEN store
  ELSE LET row == Head(rows)
           validated == TradeFormat2(row)
       IN Format2Call(
            IF TradeFormat2Valid(row)
            THEN [store EXCEPT
                    !.accounts = ensure_account_exists(
                        @, validated.account_id, Some(validated.source_system)),
                    !.trades = SessionAdd(@, Format2Trade(validated, "PIPE_FORMAT2"))]
            ELSE store,
            Tail(rows))

\* ingest_bank_positions on a store, the document validated.
RECURSIVE BankPositionsCall(_, _, _)
BankPositionsCall(store, positions, report_date) ==
  IF positions = <<>> THEN store
  ELSE LET position_data == Head(positions)
           custodian == extract_custodian_name(Some(position_data.custodian_ref))
       IN BankPositionsCall(
            [store EXCEPT
               !.accounts = ensure_account_exists(
                   @, position_data.account_id, custodian),
               !.positions = SessionAdd(
                   @, BankPositionRecord(position_data, report_date))],
            Tail(positions), report_date)

\* reconciliation() on a store.
ReconciliationOn(store, query_date) ==
  Discrepancies(SelectSeq(store.trades, LAMBDA t : t.trade_date <= query_date),
                SelectSeq(store.positions, LAMBDA p : p.report_date = query_date))

\* A trade as the desk knows it: a positive quantity bought or sold at a price.
LogicalTrades ==
  [day : QueryDates, account_id : {"ACC001"}, ticker : {"AAPL", "MSFT"},
   quantity : {1, 2}, side : TradeTypes, price : {100}]

\* The Format 1 row of a trade.
AsFormat1Row(t) ==
  F1Row(IsoDate(t.day), t.account_id, t.ticker, Some(t.quantity), Some(t.price),
        t.side, IsoDate(t.day))

\* The Format 2 row of a trade: SHARES and MARKET_VALUE carry the direction.
AsFormat2Row(t) ==
  LET sign == IF t.side = "SELL" THEN -1 ELSE 1
  IN F2Row(CompactDate(t.day), t.account_id, t.ticker, Some(sign * t.quantity),
           Some(sign * t.quantity * t.price), CUSTODIAN_A)

\* The position documents both stores receive.
MirrorDocuments ==
  {[wellformed |-> TRUE, report_date |-> CompactDate(1),
    positions |-> <<Entry("ACC001", "AAPL", Some(s), Some(100), Some(CUST_A_12345))>>] :
     s \in {1, -1}}

\* A file of trades is ingested into db as Format 1 and into mirror as Format 2.
IngestInBothFormats(trades) ==
  /\ pc = "idle"
  /\ used + Len(trades) <= MaxRecords
  /\ used' = used + Len(trades)
  /\ db' = Format1Call(db, [i \in 1..Len(trades) |-> AsFormat1Row(trades[i])])
  /\ mirror' = Format2Call(mirror, [i \in 1..Len(trades) |-> AsFormat2Row(trades[i])])
  /\ resp' = None
  /\ UNCHANGED <<sess, pc, fmt, report, custodians, todo, reportDate, hist, firsts>>
  /\ UNCHANGED <<shared, txn, at, file, calls, ended, seen, accts, made>>

\* The same position document is ingested into both stores.
IngestSnapshotInBoth(doc) ==
  /\ pc = "idle"
  /\ db.positions = <<>>
  /\ BankPositionFileValid(doc)
  /\ LET validated_file == BankPositionFile(doc)
     IN /\ db' = BankPositionsCall(
                   db, validated_file.positions, validated_file.report_date)
        /\ mirror' = BankPositionsCall(
                   mirror, validated_file.positions, validated_file.report_date)
  /\ resp' = None
  /\ UNCHANGED <<sess, pc, fmt, report, custodians, todo, reportDate, hist, firsts,
                 used>>
  /\ UNCHANGED <<shared, txn, at, file, calls, ended, seen, accts, made>>

\* GET /reconcile on each of the two stores, for the same date.
ReconcileBoth(query_date) ==
  /\ pc = "idle"
  /\ resp' = Some([op |-> "reconcile_both", date |-> query_date,
                   format1 |-> ReconciliationOn(db, query_date),
                   format2 |-> ReconciliationOn(mirror, query_date)])
  /\ UNCHANGED <<db, sess, pc, fmt, report, custodians, todo, reportDate, hist,
                 firsts, used>>
  /\ UNCHANGED cvars

FNext ==
  \/ \E trades \in SeqsUpTo(LogicalTrades, 2) \ {<<>>} : IngestInBothFormats(trades)
  \/ \E doc \in MirrorDocuments : IngestSnapshotInBoth(doc)
  \/ \E d \in QueryDates : ReconcileBoth(d)

FSpec == Init /\ [][FNext]_vars

-----------------------------------------------------------------------------
(* Concentration of one account with up to MaxHoldings holdings: a file of *)
(* trades or a snapshot is ingested into the empty store in one step, then *)
(* the concentration is computed.                                          *)

HoldingTickers == {"AAPL", "GOOGL", "MSFT", "NVDA", "TSLA"}

\* Format 2 rows: one share worth 1.00 of each ticker, and a row without
\* shares.
HoldingRows ==
  {F2Row(CompactDate(1), "ACC001", t, Some(1), Some(100), CUSTODIAN_A) :
     t \in HoldingTickers}
  \cup {F2Row(CompactDate(1), "ACC001", "TSLA", Some(0), Some(400), CUSTODIAN_A)}

\* Snapshot rows: held shares worth 1.00, and a row without shares worth 1.00.
HoldingEntries ==
  {Entry("ACC001", "AAPL", Some(1), Some(100), Some(CUST_A_12345)),
   Entry("ACC001", "MSFT", Some(1), Some(100), Some(CUST_A_12345)),
   Entry("ACC001", "AAPL", Some(0), Some(100), Some(CUST_A_12345))}

\* ingest_trade_format2 on the empty store.
IngestHoldingTrades(rows) ==
  /\ pc = "idle"
  /\ db.trades = <<>> /\ db.positions = <<>>
  /\ db' = Format2Call(db, rows)
  /\ resp' = None
  /\ UNCHANGED <<sess, pc, fmt, report, custodians, todo, reportDate, hist, firsts,
                 used>>
  /\ UNCHANGED cvars

\* ingest_bank_positions on the empty store.
IngestHoldingSnapshot(entries) ==
  /\ pc = "idle"
  /\ db.trades = <<>> /\ db.positions = <<>>
  /\ LET doc == [wellformed |-> TRUE, report_date |-> CompactDate(1),
                 positions |-> entries]
         validated_file == BankPositionFile(doc)
     IN /\ BankPositionFileValid(doc)
        /\ db' = BankPositionsCall(
                   db, validated_file.positions, validated_file.report_date)
  /\ resp' = None
  /\ UNCHANGED <<sess, pc, fmt, report, custodians, todo, reportDate, hist, firsts,
                 used>>
  /\ UNCHANGED cvars

VNext ==
  \/ \E rows \in SeqsUpTo(HoldingRows, MaxHoldings) \ {<<>>} :
       IngestHoldingTrades(rows)
  \/ \E entries \in SeqsUpTo(HoldingEntries, MaxHoldings) \ {<<>>} :
       IngestHoldingSnapshot(entries)
  \/ \E d \in QueryDates : ComplianceConcentration(d)

VSpec == Init /\ [][VNext]_vars

-----------------------------------------------------------------------------
(* Properties of ingestion *)

\* The last call has returned with the given outcome.
Returned(outcome) == pc = "idle" /\ hist.outcome = outcome

\* What the last call added to the committed tables.
AddedTrades == SubSeq(db.trades, Len(hist.before.trades) + 1, Len(db.trades))
AddedPositions ==
  SubSeq(db.positions, Len(hist.before.positions) + 1, Len(db.positions))

\* s extends t: t is a prefix of s.
Extends(s, t) == Len(s) >= Len(t) /\ SubSeq(s, 1, Len(t)) = t

\* A Trade is the record of a raw row: same account, ticker and date.
TradeOfRow(t, row) ==
  IF t.file_format = "CSV_FORMAT1"
  THEN /\ t.account_id = row.AccountID
       /\ t.ticker = row.Ticker
       /\ t.trade_date = row.TradeDate.day
  ELSE /\ t.account_id = row.ACCOUNT_ID
       /\ t.ticker = row.SECURITY_TICKER
       /\ t.trade_date = row.REPORT_DATE.day

\* C1: a Format 1 or Format 2 call that meets no file-level failure and reads n
\* rows of which k fail validation returns records_processed = n,
\* records_valid = n - k, records_failed = k, and the store then holds what it
\* held before plus one Trade for each of the n - k valid rows, in order.
C1_RecordIsolation ==
  (Returned("committed") /\ Handler(fmt) \in CsvHandlers) =>
     /\ report.records_processed = hist.rows
     /\ report.records_failed = hist.bad
     /\ report.records_valid = hist.rows - hist.bad
     /\ Extends(db.trades, hist.before.trades)
     /\ Len(AddedTrades) = Len(hist.src)
     /\ Len(hist.src) = hist.rows - hist.bad
     /\ \A i \in 1..Len(hist.src) : TradeOfRow(AddedTrades[i], hist.src[i])
     /\ db.positions = hist.before.positions

\* A committed call whose file held a valid row, then a malformed row, then a
\* valid row: both valid rows are stored.
C1_Witness ==
  /\ Returned("committed") /\ Handler(fmt) \in CsvHandlers
  /\ hist.rows = 3 /\ hist.bad = 1 /\ Len(AddedTrades) = 2
  /\ report.errors = <<[kind |-> "Row", row |-> 3]>>

\* C2: a well-formed YAML document with several entries of which exactly one
\* fails field-level validation counts that entry alone in records_failed and
\* every other entry is stored as a Position.
C2_YamlRecordIsolation ==
  (pc = "idle" /\ Handler(fmt) = "ingest_bank_positions"
     /\ hist.outcome \in {"committed", "file_error"}
     /\ hist.docOk /\ hist.rows >= 2 /\ hist.bad = 1) =>
     /\ report.records_failed = 1
     /\ report.records_processed = hist.rows
     /\ Len(AddedPositions) = Len(hist.src)

\* C3: a call that ends in a file-level failure leaves the store as it was when
\* the call started, for other sessions and for the session itself, and its
\* report holds exactly one "File processing error".
C3_FileErrorAllOrNothing ==
  Returned("file_error") =>
     /\ db = hist.before
     /\ sess = hist.before
     /\ Len(SelectSeq(report.errors,
                      LAMBDA e : e.kind = "File processing error")) = 1

\* A reader error or a failed commit after the call had accepted a record,
\* in a store that already holds a committed record.
C3_Witness ==
  /\ Returned("file_error")
  /\ report.records_valid >= 1
  /\ Len(db.trades) + Len(db.positions) >= 1

AccountIdsOf(accounts) == {a.account_id : a \in accounts}

\* C4: new_accounts_created is the number of accounts the call created.
C4_NewAccountsCounted ==
  Returned("committed") =>
     report.new_accounts_created =
        Cardinality(AccountIdsOf(db.accounts) \ AccountIdsOf(hist.before.accounts))

\* The custodian the history F gives for an account, None if none.
FirstCustodian(F, account_id) ==
  IF \E e \in F : e.account_id = account_id
  THEN Some((CHOOSE e \in F : e.account_id = account_id).custodian)
  ELSE None

\* C5 as stated: an account's custodian_name is the custodian of the first
\* valid record, of any call, that referenced it with a non-empty custodian.
C5_CustodianOfFirstRecord ==
  pc = "idle" =>
     \A a \in db.accounts : a.custodian_name = FirstCustodian(firsts.all, a.account_id)

\* C5 amended: an account's custodian_name is the custodian of the first valid
\* record, among the calls that committed, that referenced it with a non-empty
\* custodian, and None if there is no such record; the records of a call that
\* ended in a file-level failure are discarded with it.
C5_CustodianOfFirstKeptRecord ==
  /\ pc = "idle" =>
       \A a \in db.accounts :
          a.custodian_name = FirstCustodian(firsts.kept, a.account_id)
  /\ \A a \in sess.accounts : a.custodian_name = FirstCustodian(firsts.tx, a.account_id)

\* An account created by a Format 1 record, backfilled by a later record and
\* then referenced by a record carrying another custodian.
C5_Witness ==
  /\ pc = "idle"
  /\ \E a \in db.accounts :
       \E i, j, k \in 1..Len(db.trades) :
          /\ i < j /\ j < k
          /\ db.trades[i].account_id = a.account_id
          /\ db.trades[j].account_id = a.account_id
          /\ db.trades[k].account_id = a.account_id
          /\ db.trades[i].file_format = "CSV_FORMAT1"
          /\ db.trades[j].source_system = a.custodian_name
          /\ ~IsNone(db.trades[k].source_system)
          /\ db.trades[k].source_system # a.custodian_name

\* C6: a call with a format string other than the three known ones returns a
\* report with no record processed, valid or failed and exactly one error, and
\* leaves the store as it was.
C6_UnknownFormat ==
  (pc = "idle" /\ hist.outcome # "none" /\ fmt \notin KnownFormats) =>
     /\ report.records_processed = 0
     /\ report.records_valid = 0
     /\ report.records_failed = 0
     /\ Len(report.errors) = 1
     /\ db = hist.before
     /\ sess = hist.before

\* An unknown format string met by a store that holds records.
C6_Witness ==
  /\ Returned("unknown_format") /\ fmt = "csv_format1"
  /\ Len(db.trades) >= 1 /\ db.accounts # {}

\* C7: the Trade stored for a Format 1 row with Quantity q > 0 has quantity -q
\* for SELL and +q for BUY; every stored Format 1 trade has a non-zero
\* quantity, negative exactly when its trade_type is SELL.
C7_Format1Sign ==
  /\ (Returned("committed") /\ Handler(fmt) = "ingest_trade_format1") =>
        /\ Len(AddedTrades) = Len(hist.src)
        /\ \A i \in 1..Len(hist.src) :
              LET q == Val(hist.src[i].Quantity)
              IN /\ q > 0
                 /\ AddedTrades[i].quantity =
                       IF hist.src[i].TradeType = "SELL" THEN -q ELSE q
  /\ \A i \in 1..Len(db.trades) :
        db.trades[i].file_format = "CSV_FORMAT1" =>
           /\ db.trades[i].quantity # 0
           /\ (db.trades[i].quantity < 0) <=> (db.trades[i].trade_type = Some("SELL"))

\* A committed Format 1 file with a SELL and a BUY row.
C7_Witness ==
  /\ Returned("committed") /\ Handler(fmt) = "ingest_trade_format1"
  /\ \E i, j \in 1..Len(AddedTrades) :
        /\ AddedTrades[i].trade_type = Some("SELL") /\ AddedTrades[i].quantity = -2
        /\ AddedTrades[j].trade_type = Some("BUY") /\ AddedTrades[j].quantity = 2

-----------------------------------------------------------------------------
(* Properties of the query handlers *)

Tickers == {"AAPL", "MSFT"}

AllKeys == AccountIds \X Tickers

Answered(op) == ~IsNone(resp) /\ Val(resp).op = op

\* Signed sum of the quantities of the trades of `key` dated on or before d.
RECURSIVE SignedSum(_, _, _)
SignedSum(trades, key, d) ==
  IF trades = <<>> THEN 0
  ELSE (IF /\ Head(trades).account_id = key[1]
           /\ Head(trades).ticker = key[2]
           /\ Head(trades).trade_date <= d
        THEN Head(trades).quantity ELSE 0)
       + SignedSum(Tail(trades), key, d)

TradedBy(key, d) ==
  \E i \in 1..Len(db.trades) :
    /\ db.trades[i].account_id = key[1]
    /\ db.trades[i].ticker = key[2]
    /\ db.trades[i].trade_date <= d

SnapshotRows(key, d) ==
  {i \in 1..Len(db.positions) :
     /\ db.positions[i].account_id = key[1]
     /\ db.positions[i].ticker = key[2]
     /\ db.positions[i].report_date = d}

\* Shares of the snapshot of `key` on d: of its latest row when the date has
\* several, 0 when it has none.
SnapshotShares(key, d) ==
  IF SnapshotRows(key, d) = {} THEN 0
  ELSE db.positions[CHOOSE i \in SnapshotRows(key, d) :
                      \A j \in SnapshotRows(key, d) : j <= i].shares

KeyOf(r) == <<r.account_id, r.ticker>>

\* C8: reconciliation(date) reports a key exactly when the key occurs in the
\* trades dated on or before the date or in the snapshot rows of the date and
\* its expected quantity (signed sum of those trades) differs from its actual
\* quantity (snapshot shares of the date); a reported row carries both
\* quantities and difference = actual - expected, which is never 0, and no
\* key is reported twice.
C8_ReconcileDiscrepancies ==
  Answered("reconciliation") =>
    LET d == Val(resp).date
        disc == Val(resp).discrepancies
    IN /\ \A key \in AllKeys :
            (\E i \in 1..Len(disc) : KeyOf(disc[i]) = key)
              <=> ( /\ TradedBy(key, d) \/ SnapshotRows(key, d) # {}
                    /\ SignedSum(db.trades, key, d) # SnapshotShares(key, d) )
       /\ \A i \in 1..Len(disc) :
            /\ KeyOf(disc[i]) \in AllKeys
            /\ disc[i].expected_shares = SignedSum(db.trades, KeyOf(disc[i]), d)
            /\ disc[i].actual_shares = SnapshotShares(KeyOf(disc[i]), d)
            /\ disc[i].difference = disc[i].actual_shares - disc[i].expected_shares
            /\ disc[i].difference # 0
       /\ \A i, j \in 1..Len(disc) : KeyOf(disc[i]) = KeyOf(disc[j]) => i = j

\* A reconciliation answered with a discrepancy while another key, traded and
\* in the snapshot with equal non-zero quantities, is left out, and a trade
\* dated after the query date is in the store.
C8_Witness ==
  /\ Answered("reconciliation")
  /\ Val(resp).discrepancies # <<>>
  /\ \E key \in AllKeys :
       /\ TradedBy(key, Val(resp).date)
       /\ SnapshotRows(key, Val(resp).date) # {}
       /\ SnapshotShares(key, Val(resp).date) # 0
       /\ \A i \in 1..Len(Val(resp).discrepancies) :
            KeyOf(Val(resp).discrepancies[i]) # key

\* C9: every discrepancy has the status missing_in_bank when its actual
\* quantity is 0, else missing_in_trades when its expected quantity is 0, else
\* quantity_mismatch; a reported key traded but without a snapshot row is
\* missing_in_bank with actual 0, a reported key only in the snapshot is
\* missing_in_trades with expected 0, and quantity_mismatch is carried exactly
\* by the rows whose two quantities are non-zero and different.
C9_DiscrepancyStatus ==
  Answered("reconciliation") =>
    LET d == Val(resp).date
        disc == Val(resp).discrepancies
    IN \A i \in 1..Len(disc) :
         LET r == disc[i] IN
         /\ r.status \in {"missing_in_bank", "missing_in_trades", "quantity_mismatch"}
         /\ r.actual_shares = 0 => r.status = "missing_in_bank"
         /\ (r.actual_shares # 0 /\ r.expected_shares = 0)
              => r.status = "missing_in_trades"
         /\ (TradedBy(KeyOf(r), d) /\ SnapshotRows(KeyOf(r), d) = {})
              => (r.status = "missing_in_bank" /\ r.actual_shares = 0)
         /\ (~TradedBy(KeyOf(r), d) /\ SnapshotRows(KeyOf(r), d) # {})
              => (r.status = "missing_in_trades" /\ r.expected_shares = 0)
         /\ (r.status = "quantity_mismatch")
              <=> ( /\ r.actual_shares # 0
                    /\ r.expected_shares # 0
                    /\ r.actual_shares # r.expected_shares )

\* A reconciliation answered with a key traded but absent from the snapshot
\* and a key present only in the snapshot.
C9_Witness ==
  /\ Answered("reconciliation")
  /\ \E i, j \in 1..Len(Val(resp).discrepancies) :
       /\ Val(resp).discrepancies[i].status = "missing_in_bank"
       /\ SnapshotRows(KeyOf(Val(resp).discrepancies[i]), Val(resp).date) = {}
       /\ Val(resp).discrepancies[j].status = "missing_in_trades"
       /\ ~TradedBy(KeyOf(Val(resp).discrepancies[j]), Val(resp).date)

\* A reconciliation answered with a row whose two quantities are non-zero.
C9_MismatchReached ==
  /\ Answered("reconciliation")
  /\ \E i \in 1..Len(Val(resp).discrepancies) :
       Val(resp).discrepancies[i].status = "quantity_mismatch"

InBounds(v) ==
  /\ v.account_total_value > 0
  /\ v.market_value <= v.account_total_value
  /\ v.concentration_pct.den > 0
  /\ 0 <= v.concentration_pct.num
  /\ v.concentration_pct.num <= 100 * v.concentration_pct.den

\* C10: every violation of compliance_concentration, from the trades and from
\* the bank positions, has 0 <= concentration_pct <= 100, a market_value not
\* above its account_total_value, and an account_total_value above 0.
C10_ConcentrationBound ==
  Answered("compliance_concentration") =>
    LET v == Val(resp).violations
    IN /\ \A i \in 1..Len(v.from_trades) : InBounds(v.from_trades[i])
       /\ \A i \in 1..Len(v.from_bank) : InBounds(v.from_bank[i])

\* A concentration answered with a violation from the trades, and a violation
\* from the bank positions in an account that also holds a short position.
C10_Witness ==
  /\ Answered("compliance_concentration")
  /\ Val(resp).violations.from_trades # <<>>
  /\ \E i \in 1..Len(Val(resp).violations.from_bank) :
       LET v == Val(resp).violations.from_bank[i] IN
       /\ \E j \in 1..Len(db.positions) :
            /\ db.positions[j].account_id = v.account_id
            /\ db.positions[j].report_date = Val(resp).date
            /\ db.positions[j].market_value < 0

-----------------------------------------------------------------------------
(* Properties of the concentration check *)

\* Value of the trade-derived position of `key` on d.
RECURSIVE ValueSum(_, _, _)
ValueSum(trades, key, d) ==
  IF trades = <<>> THEN 0
  ELSE (IF /\ Head(trades).account_id = key[1]
           /\ Head(trades).ticker = key[2]
           /\ Head(trades).trade_date <= d
        THEN TradeValue(Head(trades)) ELSE 0)
       + ValueSum(Tail(trades), key, d)

\* The trade-derived positions of d: the traded keys with a non-zero net
\* share count.
Held(key, d) == TradedBy(key, d) /\ SignedSum(db.trades, key, d) # 0

TickerList == SortedStrs(Tickers)

\* Sum of the strictly positive values of the trade-derived positions of an
\* account.
PositiveTotalTrades(account_id, d) ==
  SumSeq([i \in 1..Len(TickerList) |->
            IF /\ Held(<<account_id, TickerList[i]>>, d)
               /\ ValueSum(db.trades, <<account_id, TickerList[i]>>, d) > 0
            THEN ValueSum(db.trades, <<account_id, TickerList[i]>>, d) ELSE 0])

\* Sum of the strictly positive market values of the snapshot rows of an
\* account on d.
PositiveTotalBank(account_id, d) ==
  SumSeq([i \in 1..Len(db.positions) |->
            IF /\ db.positions[i].account_id = account_id
               /\ db.positions[i].report_date = d
               /\ db.positions[i].market_value > 0
            THEN db.positions[i].market_value ELSE 0])

Above20(value, total) == value > 0 /\ total > 0 /\ value * 100 > 20 * total

PctAbove20(v) ==
  /\ v.concentration_pct.den > 0
  /\ v.concentration_pct.num > 20 * v.concentration_pct.den
  /\ v.excess_pct.den = v.concentration_pct.den
  /\ v.excess_pct.num = v.concentration_pct.num - 20 * v.concentration_pct.den
  /\ v.excess_pct.num > 0

\* C11: a position is flagged exactly when its value is strictly positive and
\* strictly more than 20% of its account total: every violation has
\* concentration_pct > 20 and excess_pct = concentration_pct - 20 > 0, a
\* position at exactly 20% is not flagged, and no positive position above 20%
\* is left out, in the trade derivation and in the bank derivation.
C11_FlaggedIffAbove20 ==
  Answered("compliance_concentration") =>
    LET d == Val(resp).date
        ft == Val(resp).violations.from_trades
        fb == Val(resp).violations.from_bank
    IN /\ \A i \in 1..Len(ft) : PctAbove20(ft[i])
       /\ \A i \in 1..Len(fb) : PctAbove20(fb[i])
       /\ \A key \in AllKeys :
            (\E i \in 1..Len(ft) : KeyOf(ft[i]) = key)
              <=> ( /\ Held(key, d)
                    /\ Above20(ValueSum(db.trades, key, d),
                               PositiveTotalTrades(key[1], d)) )
       /\ \A i \in 1..Len(ft) :
            /\ ft[i].market_value = ValueSum(db.trades, KeyOf(ft[i]), d)
            /\ ft[i].account_total_value = PositiveTotalTrades(ft[i].account_id, d)
            /\ ft[i].concentration_pct.num = 100 * ft[i].market_value
            /\ ft[i].concentration_pct.den = ft[i].account_total_value
       /\ \A j \in 1..Len(db.positions) :
            db.positions[j].report_date = d =>
              ( Above20(db.positions[j].market_value,
                        PositiveTotalBank(db.positions[j].account_id, d))
                <=> \E i \in 1..Len(fb) :
                      /\ KeyOf(fb[i]) = KeyOf(db.positions[j])
                      /\ fb[i].shares = db.positions[j].shares
                      /\ fb[i].market_value = db.positions[j].market_value )
       /\ \A i \in 1..Len(fb) :
            /\ \E j \in 1..Len(db.positions) :
                 /\ db.positions[j].report_date = d
                 /\ KeyOf(fb[i]) = KeyOf(db.positions[j])
                 /\ fb[i].shares = db.positions[j].shares
                 /\ fb[i].market_value = db.positions[j].market_value
            /\ fb[i].account_total_value = PositiveTotalBank(fb[i].account_id, d)
            /\ fb[i].concentration_pct.num = 100 * fb[i].market_value
            /\ fb[i].concentration_pct.den = fb[i].account_total_value

\* A concentration answered over an account whose trade-derived positions are
\* one at exactly 20% of the account total, not flagged, and one above it,
\* flagged.
C11_Witness ==
  /\ Answered("compliance_concentration")
  /\ \E key \in AllKeys :
       /\ Held(key, Val(resp).date)
       /\ ValueSum(db.trades, key, Val(resp).date) > 0
       /\ ValueSum(db.trades, key, Val(resp).date) * 100
            = 20 * PositiveTotalTrades(key[1], Val(resp).date)
       /\ \A i \in 1..Len(Val(resp).violations.from_trades) :
            KeyOf(Val(resp).violations.from_trades[i]) # key
       /\ \E i \in 1..Len(Val(resp).violations.from_trades) :
            Val(resp).violations.from_trades[i].account_id = key[1]

OfAccount(violations, account_id) ==
  SelectSeq(violations, LAMBDA v : v.account_id = account_id)

PositiveOnly(positions_list) ==
  SelectSeq(positions_list, LAMBDA pos : pos.market_value > 0)

\* C12: in both derivations the account_total_value of a violation is the sum
\* of the values of the account's positions whose value is > 0, and the
\* violations of an account are those of the account with every position of
\* value <= 0 taken away: such a position, whatever it is, changes neither the
\* total nor the violations.
C12_PositiveDenominator ==
  Answered("compliance_concentration") =>
    LET d == Val(resp).date
        ft == Val(resp).violations.from_trades
        fb == Val(resp).violations.from_bank
    IN /\ \A i \in 1..Len(ft) :
            ft[i].account_total_value = PositiveTotalTrades(ft[i].account_id, d)
       /\ \A i \in 1..Len(fb) :
            fb[i].account_total_value = PositiveTotalBank(fb[i].account_id, d)
       /\ \A a \in AccountIds :
            /\ OfAccount(ft, a)
                 = TradeViolationsOf(a, PositiveOnly(TradePositionsOf(TradesUpTo(d), a)))
            /\ OfAccount(fb, a)
                 = BankViolationsOf(a, PositiveOnly(BankPositionsOf(PositionsOn(d), a)))

\* A concentration answered with a violation from the trades in an account
\* that also holds a trade-derived position of negative value.
C12_Witness ==
  /\ Answered("compliance_concentration")
  /\ \E i \in 1..Len(Val(resp).violations.from_trades) :
       \E t \in Tickers :
         LET key == <<Val(resp).violations.from_trades[i].account_id, t>> IN
         /\ Held(key, Val(resp).date)
         /\ ValueSum(db.trades, key, Val(resp).date) < 0

LongAndPositive(v) == v.shares > 0 /\ v.market_value > 0

\* C13: no violation, from the trades or from the bank positions, is emitted
\* for a position whose value is <= 0 or whose share count is negative: every
\* violation has shares > 0 and market_value > 0.
C13_ShortNeverFlagged ==
  Answered("compliance_concentration") =>
    /\ \A i \in 1..Len(Val(resp).violations.from_trades) :
         LongAndPositive(Val(resp).violations.from_trades[i])
    /\ \A i \in 1..Len(Val(resp).violations.from_bank) :
         LongAndPositive(Val(resp).violations.from_bank[i])

TradesDatedUpTo(d) == SelectSeq(db.trades, LAMBDA t : t.trade_date <= d)

SnapshotOf(d) == SelectSeq(db.positions, LAMBDA p : p.report_date = d)

-----------------------------------------------------------------------------
(* Properties of the positions query *)

HasSnapshot(account_id, d) ==
  \E j \in 1..Len(db.positions) :
    db.positions[j].account_id = account_id /\ db.positions[j].report_date = d

HasTrades(account_id, d) ==
  \E j \in 1..Len(db.trades) :
    db.trades[j].account_id = account_id /\ db.trades[j].trade_date <= d

NoDataNote == Some("No trade or position data found")

\* C15: get_positions answers "no data" (404, an empty list and the note 'No
\* trade or position data found') exactly when the account has neither a
\* snapshot row of the date nor a trade dated on or before it; when it has
\* such trades, no snapshot row, and every ticker nets to zero shares, the
\* answer is 200 with an empty list and without that note.
C15_NoDataOutcome ==
  Answered("get_positions") =>
    LET a == Val(resp).account_id
        d == Val(resp).date
        b == Val(resp).body
    IN /\ b.status \in {200, 404}
       /\ b.status = 404 <=> (~HasSnapshot(a, d) /\ ~HasTrades(a, d))
       /\ b.status = 404 => (b.positions = <<>> /\ b.note = NoDataNote)
       /\ b.status = 200 => b.note # NoDataNote
       /\ ( /\ ~HasSnapshot(a, d)
            /\ HasTrades(a, d)
            /\ \A t \in Tickers : SignedSum(db.trades, <<a, t>>, d) = 0 )
            => (b.status = 200 /\ b.positions = <<>>)

\* Positions answered for an account without snapshot row whose trades up to
\* the date net to zero on every ticker: 200 and an empty list.
C15_Witness ==
  /\ Answered("get_positions")
  /\ ~HasSnapshot(Val(resp).account_id, Val(resp).date)
  /\ HasTrades(Val(resp).account_id, Val(resp).date)
  /\ Val(resp).body.status = 200
  /\ Val(resp).body.positions = <<>>

\* Positions answered "no data" for one account while the store holds trades
\* of another.
C15_NoDataReached ==
  /\ Answered("get_positions")
  /\ Val(resp).body.status = 404
  /\ db.trades # <<>>

\* C16: get_positions derives the answer from the trades alone exactly when
\* the account has no snapshot row of the date; that answer lists each ticker
\* whose signed sum of quantities dated on or before the date is not zero,
\* once, with that sum as shares and no market_value, and lists no ticker
\* whose sum is zero.
C16_TradeOnlyFallback ==
  Answered("get_positions") =>
    LET a == Val(resp).account_id
        d == Val(resp).date
        ps == Val(resp).body.positions
    IN IF HasSnapshot(a, d)
       THEN /\ Len(ps) = Cardinality({j \in 1..Len(db.positions) :
                            /\ db.positions[j].account_id = a
                            /\ db.positions[j].report_date = d})
            /\ \A i \in 1..Len(ps) : ~IsNone(ps[i].market_value)
       ELSE /\ \A t \in Tickers :
                 (\E i \in 1..Len(ps) : ps[i].ticker = t)
                   <=> SignedSum(db.trades, <<a, t>>, d) # 0
            /\ \A i \in 1..Len(ps) :
                 /\ ps[i].ticker \in Tickers
                 /\ ps[i].shares = SignedSum(db.trades, <<a, ps[i].ticker>>, d)
                 /\ ps[i].shares # 0
                 /\ IsNone(ps[i].market_value)
            /\ \A i, j \in 1..Len(ps) : ps[i].ticker = ps[j].ticker => i = j

\* Positions answered from the trades alone with one ticker listed and
\* another, traded but netting to zero, left out.
C16_Witness ==
  /\ Answered("get_positions")
  /\ ~HasSnapshot(Val(resp).account_id, Val(resp).date)
  /\ Val(resp).body.positions # <<>>
  /\ \E t \in Tickers :
       /\ TradedBy(<<Val(resp).account_id, t>>, Val(resp).date)
       /\ SignedSum(db.trades, <<Val(resp).account_id, t>>, Val(resp).date) = 0

-----------------------------------------------------------------------------
(* Properties of the three queries together *)

SameCall(r, q) ==
  /\ r.op = q.op
  /\ r.date = q.date
  /\ r.op = "get_positions" => r.account_id = q.account_id

\* A step that answers a query leaves the store and the session alone, and
\* when the query before it, with no ingestion in between, had the same
\* arguments, the answer is the same.
IdempotentRead ==
  (~IsNone(resp') /\ pc = "idle") =>
    /\ db' = db
    /\ sess' = sess
    /\ (~IsNone(resp) /\ SameCall(Val(resp), Val(resp'))) => resp' = resp

-----------------------------------------------------------------------------
(* Properties of the ledger *)

\* C18: the store holds at most one Position per (account_id, ticker,
\* report_date), whatever was ingested.
C18_SnapshotUnique ==
  \A i, j \in 1..Len(db.positions) :
    ( /\ db.positions[i].account_id = db.positions[j].account_id
      /\ db.positions[i].ticker = db.positions[j].ticker
      /\ db.positions[i].report_date = db.positions[j].report_date )
      => i = j

\* No step modifies or removes a Trade or a Position.
AppendOnlyStep ==
  /\ Extends(db'.trades, db.trades)
  /\ Extends(db'.positions, db.positions)

\* After a call that committed, the store is the store before the call with
\* one new record per valid record of the call, so the expected shares of
\* every key are those before the call plus those of the new trades; and
\* reconciliation reports the expected shares summed over every Trade record.
CommittedCallAdds ==
  /\ (pc = "idle" /\ hist.outcome = "committed") =>
       /\ Extends(db.trades, hist.before.trades)
       /\ Extends(db.positions, hist.before.positions)
       /\ Len(AddedTrades) + Len(AddedPositions) = report.records_valid
       /\ \A key \in AllKeys, d \in QueryDates :
            SignedSum(db.trades, key, d)
              = SignedSum(hist.before.trades, key, d) + SignedSum(AddedTrades, key, d)
  /\ Answered("reconciliation") =>
       \A i \in 1..Len(Val(resp).discrepancies) :
         LET r == Val(resp).discrepancies[i] IN
         r.expected_shares = SignedSum(db.trades, KeyOf(r), Val(resp).date)

\* C19: the ledger is append-only and additive without deduplication: a call
\* that committed with v valid records added exactly v new Trade or Position
\* records whatever the store held, no ingestion or query step modifies or
\* removes a Trade or Position, and the expected shares reconciliation sees
\* count every record, so the same trades ingested twice count twice.
C19_AppendOnlyLedger == []CommittedCallAdds /\ [][AppendOnlyStep]_vars

\* A reconciliation answered over a store that holds the same trade twice,
\* once from each trade format, with expected shares twice its quantity.
C19_Witness ==
  /\ Answered("reconciliation")
  /\ \E i, j \in 1..Len(db.trades) :
       /\ db.trades[i].file_format = "CSV_FORMAT1"
       /\ db.trades[j].file_format = "PIPE_FORMAT2"
       /\ db.trades[i].trade_date = db.trades[j].trade_date
       /\ db.trades[i].account_id = db.trades[j].account_id
       /\ db.trades[i].ticker = db.trades[j].ticker
       /\ db.trades[i].quantity = db.trades[j].quantity
       /\ db.trades[i].trade_date <= Val(resp).date
       /\ \E k \in 1..Len(Val(resp).discrepancies) :
            /\ KeyOf(Val(resp).discrepancies[k]) = KeyOf(db.trades[i])
            /\ Val(resp).discrepancies[k].expected_shares = 2 * db.trades[i].quantity

-----------------------------------------------------------------------------
(* Properties of concurrent requests *)

WrittenBy(records, f) == SelectSeq(records, LAMBDA r : r.source_file = f)

\* Of every call, `records` holds no record or all the records the call
\* wrote, and then the call has committed.
NoneOrAll(records) ==
  \A f \in 1..calls :
    \/ WrittenBy(records, f) = <<>>
    \/ \E e \in ended : /\ e.file = f
                         /\ e.outcome = "committed"
                         /\ WrittenBy(records, f) = e.wrote

\* C20: with concurrent calls and queries on sessions of their own, a query
\* and another call's session observe none or all of the records of a call,
\* never some of them, and a call that returned is fully committed or fully
\* rolled back.
C20_AtomicVisibility ==
  /\ NoneOrAll(ReadCommitted)
  /\ ~IsNone(seen) => NoneOrAll(Val(seen))
  /\ \A e \in ended :
       WrittenBy(shared, e.file)
         = IF e.outcome = "committed" THEN e.wrote ELSE <<>>
  /\ \A s \in Requests :
       at[s] = "rows" => WrittenBy(shared, file[s]) = <<>>

\* A query has read the records of a committed call while another call, with
\* rows written, is still running and a third, with rows written, was rolled
\* back.
C20_Witness ==
  /\ ~IsNone(seen)
  /\ Val(seen) # <<>>
  /\ \E s \in Requests : at[s] = "rows" /\ txn[s] # <<>>
  /\ \E e \in ended : e.outcome = "rolled_back" /\ e.wrote # <<>>

-----------------------------------------------------------------------------
(* Properties of the report and of the helpers *)

\* The valid records the loop of the last call handled, in order.
HandledRecords == SubSeq(hist.src, 1, report.records_valid)

\* The custodian names the last call observed in its records.
ObservedCustodians ==
  IF Handler(fmt) = "ingest_trade_format2"
  THEN {r.SOURCE_SYSTEM : r \in Range(HandledRecords)}
  ELSE IF Handler(fmt) = "ingest_bank_positions"
  THEN {Val(extract_custodian_name(e.custodian_ref)) :
          e \in {x \in Range(HandledRecords) :
                   ~IsNone(extract_custodian_name(x.custodian_ref))}}
  ELSE {}

\* names lists the set S in ascending order, each element once.
SortedListOf(names, S) ==
  /\ Range(names) = S
  /\ \A i, j \in 1..Len(names) : i < j => TextRank(names[i]) < TextRank(names[j])

\* C21: the report of every call that returned lists, ascending and without
\* duplicates, the custodian names observed in the records of that call:
\* nothing for Format A, the SOURCE_SYSTEM values of the valid rows for
\* Format B, the names derived from custodian_ref for Format C.
C21_CustodiansDetected ==
  (pc = "idle" /\ hist.outcome \in {"committed", "file_error"}) =>
     SortedListOf(report.custodians_detected, ObservedCustodians)

\* The same for the calls that committed.
C21_OfCommittedCalls ==
  Returned("committed") =>
     SortedListOf(report.custodians_detected, ObservedCustodians)

\* A committed call observed two custodians, in a store where an earlier call
\* had recorded a custodian.
C21_CommittedReached ==
  /\ Returned("committed")
  /\ Cardinality(ObservedCustodians) = 2
  /\ \E a \in hist.before.accounts : Truthy(a.custodian_name)

\* The positions of the separator in a text.
Separators(text) == {i \in 1..Len(text) : text[i] = "_"}

\* The text between the first separator and the second one, or the end of the
\* text when there is no second one.
SecondSegment(text) ==
  LET first == CHOOSE i \in Separators(text) : \A j \in Separators(text) : i <= j
      later == {i \in Separators(text) : i > first}
      stop == IF later = {} THEN Len(text) + 1
              ELSE CHOOSE i \in later : \A j \in later : i <= j
  IN SubSeq(text, first + 1, stop - 1)

\* C22: extract_custodian_name returns "CUSTODIAN_" followed by the text
\* between the first and the second "_" of a reference that has at least two
\* "_"-delimited segments, and None for a reference that is absent, empty or
\* has a single segment.
C22_ExtractCustodianName ==
  Answered("extract_custodian_name") =>
     LET ref == Val(resp).custodian_ref
         name == Val(resp).name
     IN IF IsNone(ref) \/ Val(ref) = <<>> \/ Separators(Val(ref)) = {}
        THEN name = None
        ELSE name = Some(<<"CUSTODIAN", "_">> \o SecondSegment(Val(ref)))

\* A reference with two separators gave the name of its second segment.
C22_Witness ==
  /\ Answered("extract_custodian_name")
  /\ Val(resp).custodian_ref = Some(<<"C", "_", "A", "_">>)
  /\ Val(resp).name = Some(<<"CUSTODIAN", "_", "A">>)

-----------------------------------------------------------------------------
(* Properties across formats and operations *)

\* C23: the same trades ingested as Format 1 rows into one store and as
\* Format 2 rows into another, with the same snapshot in both, give the same
\* discrepancies (keys, expected_shares, actual_shares, difference, status)
\* for every query date.
C23_FormatEquivalence ==
  Answered("reconcile_both") => Val(resp).format1 = Val(resp).format2

\* Both stores hold a buy and a sell and a snapshot, and the reconciliation
\* of the date reports a discrepancy.
C23_Witness ==
  /\ Answered("reconcile_both")
  /\ \E i, j \in 1..Len(db.trades) : db.trades[i].quantity > 0 /\ db.trades[j].quantity < 0
  /\ Len(mirror.trades) = Len(db.trades)
  /\ \A i \in 1..Len(mirror.trades) : mirror.trades[i].file_format = "PIPE_FORMAT2"
  /\ db.positions # <<>>
  /\ Val(resp).format1 # <<>>

\* Sum of the strictly positive market values of the snapshot rows of an
\* account on d that hold shares.
PositiveTotalBankHeld(account_id, d) ==
  SumSeq([i \in 1..Len(db.positions) |->
            IF /\ db.positions[i].account_id = account_id
               /\ db.positions[i].report_date = d
               /\ db.positions[i].shares # 0
               /\ db.positions[i].market_value > 0
            THEN db.positions[i].market_value ELSE 0])

\* The trade half of C24: a key whose trades net to zero shares is no
\* violation and adds nothing to account_total_value.
C24_ZeroSharesDroppedFromTrades ==
  Answered("compliance_concentration") =>
    LET d == Val(resp).date
        ft == Val(resp).violations.from_trades
    IN /\ \A i \in 1..Len(ft) :
            /\ ft[i].shares # 0
            /\ SignedSum(db.trades, KeyOf(ft[i]), d) # 0
            /\ ft[i].account_total_value = PositiveTotalTrades(ft[i].account_id, d)

\* The bank half of C24: a snapshot row with no shares is no violation and
\* adds nothing to account_total_value.
C24_ZeroSharesDroppedFromBank ==
  Answered("compliance_concentration") =>
    LET d == Val(resp).date
        fb == Val(resp).violations.from_bank
    IN /\ \A i \in 1..Len(fb) :
            /\ fb[i].shares # 0
            /\ fb[i].account_total_value = PositiveTotalBankHeld(fb[i].account_id, d)

\* C24: an (account, ticker) with a net share count of zero adds nothing to
\* account_total_value and is never a violation, in from_trades and in
\* from_bank, even when its value is positive.
C24_ZeroSharesDropped ==
  C24_ZeroSharesDroppedFromTrades /\ C24_ZeroSharesDroppedFromBank

\* A concentration answered over trades that net to zero shares with a positive
\* value, in an account with a violation from the trades.
C24_TradesReached ==
  /\ Answered("compliance_concentration")
  /\ \E key \in AllKeys :
       /\ TradedBy(key, Val(resp).date)
       /\ SignedSum(db.trades, key, Val(resp).date) = 0
       /\ ValueSum(db.trades, key, Val(resp).date) > 0
       /\ \E i \in 1..Len(Val(resp).violations.from_trades) :
            Val(resp).violations.from_trades[i].account_id = key[1]

\* market_value = price x |quantity| for a Trade that carries both.
ValueIsPriceTimesQuantity(t) ==
  (~IsNone(t.price) /\ ~IsNone(t.market_value)) =>
     Val(t.market_value) = Val(t.price) * Abs(t.quantity)

\* C25: every persisted Trade that has a price and a market_value satisfies
\* market_value = price x |quantity|, whatever its format and direction.
C25_TradeValueInvariant ==
  \A i \in 1..Len(db.trades) : ValueIsPriceTimesQuantity(db.trades[i])

\* The same for the trades of Format 1 files.
C25_OfFormat1Trades ==
  \A i \in 1..Len(db.trades) :
     db.trades[i].file_format = "CSV_FORMAT1" =>
        /\ ~IsNone(db.trades[i].price) /\ ~IsNone(db.trades[i].market_value)
        /\ ValueIsPriceTimesQuantity(db.trades[i])

\* A Format 1 sale is persisted.
C25_Format1Reached ==
  \E i \in 1..Len(db.trades) :
     db.trades[i].file_format = "CSV_FORMAT1" /\ db.trades[i].quantity < 0

\* The trades behind a snapshot row: same account and ticker, dated up to d.
Behind(t, account_id, ticker, d) ==
  t.account_id = account_id /\ t.ticker = ticker /\ t.trade_date <= d

SharesBehind(account_id, ticker, d) ==
  SumSeq([i \in 1..Len(db.trades) |->
            IF Behind(db.trades[i], account_id, ticker, d)
            THEN db.trades[i].quantity ELSE 0])

\* price x |quantity| when the trade has a price, otherwise |market_value|.
CostByPresentPrice(t) ==
  IF ~IsNone(t.price) THEN Val(t.price) * Abs(t.quantity)
  ELSE IF ~IsNone(t.market_value) THEN Abs(Val(t.market_value))
  ELSE 0

\* price x |quantity| when the trade has a price other than 0.00, otherwise
\* |market_value|.
CostByNonZeroPrice(t) ==
  IF ~IsNone(t.price) /\ Val(t.price) # 0 THEN Val(t.price) * Abs(t.quantity)
  ELSE IF ~IsNone(t.market_value) THEN Abs(Val(t.market_value))
  ELSE 0

CostBehindByPresentPrice(account_id, ticker, d) ==
  SumSeq([i \in 1..Len(db.trades) |->
            IF Behind(db.trades[i], account_id, ticker, d)
            THEN CostByPresentPrice(db.trades[i]) ELSE 0])

CostBehindByNonZeroPrice(account_id, ticker, d) ==
  SumSeq([i \in 1..Len(db.trades) |->
            IF Behind(db.trades[i], account_id, ticker, d)
            THEN CostByNonZeroPrice(db.trades[i]) ELSE 0])

\* The last answer of positions came from the snapshot of the account.
AnsweredFromSnapshot ==
  /\ Answered("get_positions")
  /\ HasSnapshot(Val(resp).account_id, Val(resp).date)

\* An item of the answer has the given total_cost, and as cost_basis that cost
\* over the shares behind the row, 0 when there are none.
CostItem(item, total_cost, total_shares) ==
  /\ item.total_cost = total_cost
  /\ total_cost >= 0
  /\ IF total_shares = 0
     THEN item.cost_basis.num = 0
     ELSE /\ item.cost_basis.num = total_cost
          /\ item.cost_basis.den = total_shares

C26_ZeroSharesReached ==
  /\ AnsweredFromSnapshot
  /\ \E i, k \in 1..Len(Val(resp).body.positions) :
       LET item == Val(resp).body.positions[i]
           bare == Val(resp).body.positions[k]
           a == Val(resp).account_id
           d == Val(resp).date
       IN /\ SharesBehind(a, item.ticker, d) = 0
          /\ item.total_cost > 0
          /\ item.cost_basis.num = 0
          /\ \A j \in 1..Len(db.trades) : ~Behind(db.trades[j], a, bare.ticker, d)
          /\ bare.cost_basis.num = 0

\* The records the last call left in the committed tables.
PersistedByCall == Len(AddedTrades) + Len(AddedPositions)

\* C27: at the return of every call, also of one that ends in a file-level
\* error after rows were accepted, records_valid is the number of Trade and
\* Position records the call left persisted, and records_processed =
\* records_valid + records_failed.
C27_ReportNeverOverstates ==
  (pc = "idle" /\ hist.outcome \in {"committed", "file_error"}) =>
     /\ report.records_valid = PersistedByCall
     /\ report.records_processed = report.records_valid + report.records_failed

\* The same for the calls that committed; the counts add up at every return.
C27_OfCommittedCalls ==
  /\ Returned("committed") => report.records_valid = PersistedByCall
  /\ (pc = "idle" /\ hist.outcome \in {"committed", "file_error"}) =>
        report.records_processed = report.records_valid + report.records_failed

\* A call committed valid records after a record that failed.
C27_CommittedReached ==
  /\ Returned("committed")
  /\ report.records_valid >= 1 /\ report.records_failed >= 1
  /\ PersistedByCall = report.records_valid

-----------------------------------------------------------------------------
(* Properties of concurrent calls on one account *)

\* Two calls that returned, each having inserted the same account, neither
\* ended by a failure of its file.
BothInserted(e1, e2) ==
  /\ e1.file # e2.file
  /\ e1.made \cap e2.made # {}
  /\ e1.wrote # <<>> /\ e2.wrote # <<>>
  /\ e1.outcome # "rolled_back" /\ e2.outcome # "rolled_back"

\* C28: two calls that run concurrently on sessions of their own, each with
\* valid records of the same account that no call had stored before, both
\* succeed: the records of both are persisted and the account exists once.
C28_ConcurrentNewAccount ==
  \A e1, e2 \in ended :
     BothInserted(e1, e2) =>
        /\ e1.outcome = "committed" /\ e2.outcome = "committed"
        /\ WrittenBy(shared, e1.file) = e1.wrote
        /\ WrittenBy(shared, e2.file) = e2.wrote
        /\ \A a \in e1.made \cap e2.made :
             Cardinality({x \in accts : x.account_id = a}) = 1

\* A call that found the account committed by an earlier call keeps its
\* records.
C28_SequentialCalls ==
  \A e \in ended : (e.made = {} /\ e.outcome # "rolled_back") =>
     e.outcome = "committed" /\ WrittenBy(shared, e.file) = e.wrote

\* A call that inserted no account committed records after another call had
\* committed the account.
C28_SequentialReached ==
  \E e1, e2 \in ended :
     /\ e1.outcome = "committed" /\ e1.made # {}
     /\ e2.outcome = "committed" /\ e2.made = {} /\ e2.wrote # <<>>

-----------------------------------------------------------------------------
(* Properties of the share counts derived from the trades *)

\* The rows of a list of answers that are about a key.
AboutKey(rows, key) == SelectSeq(rows, LAMBDA r : KeyOf(r) = key)

\* C29: the shares the fallback path of positions reports, the shares of a
\* violation from the trades and the expected_shares of a discrepancy are, for
\* the same store, date, account and ticker, one value: the signed sum of the
\* quantities of the trades of the key dated on or before the date. Trades
\* after the date change none of them.
C29_TradeSharesAgree ==
  /\ (Answered("get_positions")
        /\ ~HasSnapshot(Val(resp).account_id, Val(resp).date)) =>
       LET a == Val(resp).account_id
           d == Val(resp).date
           ps == Val(resp).body.positions
           flagged == TradeViolations(TradesDatedUpTo(d))
           unequal == reconciliation(d)
       IN \A i \in 1..Len(ps) :
            LET key == <<a, ps[i].ticker>> IN
            /\ ps[i].shares = SignedSum(db.trades, key, d)
            /\ \A j \in 1..Len(AboutKey(flagged, key)) :
                 AboutKey(flagged, key)[j].shares = ps[i].shares
            /\ \A j \in 1..Len(AboutKey(unequal, key)) :
                 AboutKey(unequal, key)[j].expected_shares = ps[i].shares
  /\ Answered("compliance_concentration") =>
       LET ft == Val(resp).violations.from_trades
       IN \A i \in 1..Len(ft) :
            ft[i].shares = SignedSum(db.trades, KeyOf(ft[i]), Val(resp).date)
  /\ Answered("reconciliation") =>
       LET ds == Val(resp).discrepancies
       IN \A i \in 1..Len(ds) :
            ds[i].expected_shares = SignedSum(db.trades, KeyOf(ds[i]), Val(resp).date)

\* Positions answered from the trades for a key that is also a violation from
\* the trades and a discrepancy of the same date, in a store that holds a later
\* trade of the key.
C29_Witness ==
  /\ Answered("get_positions")
  /\ ~HasSnapshot(Val(resp).account_id, Val(resp).date)
  /\ \E i \in 1..Len(Val(resp).body.positions) :
       LET d == Val(resp).date
           key == <<Val(resp).account_id, Val(resp).body.positions[i].ticker>>
       IN /\ AboutKey(TradeViolations(TradesDatedUpTo(d)), key) # <<>>
          /\ AboutKey(reconciliation(d), key) # <<>>
          /\ \E j \in 1..Len(db.trades) :
               KeyOf(db.trades[j]) = key /\ db.trades[j].trade_date > d

-----------------------------------------------------------------------------
(* Properties of the number of violations of an account *)

\* The keys of the account with a trade dated up to d.
KeysTraded(account_id, d) ==
  {KeyOf(db.trades[i]) : i \in {j \in 1..Len(db.trades) :
      db.trades[j].account_id = account_id /\ db.trades[j].trade_date <= d}}

\* The positions of the account derived from the trades that have a non-zero
\* share count and a strictly positive value.
PositiveFromTrades(account_id, d) ==
  {key \in KeysTraded(account_id, d) :
     SignedSum(db.trades, key, d) # 0 /\ ValueSum(db.trades, key, d) > 0}

\* The same for the snapshot rows of the account on d.
PositiveFromBank(account_id, d) ==
  {i \in 1..Len(db.positions) :
     /\ db.positions[i].account_id = account_id
     /\ db.positions[i].report_date = d
     /\ db.positions[i].shares # 0
     /\ db.positions[i].market_value > 0}

\* An account with n positive positions, 1 <= n <= 4, has a violation, at
\* exactly 100% when n = 1.
SmallAccountFlagged(n, violations) ==
  /\ (1 <= n /\ n <= 4) => violations # <<>>
  /\ n = 1 => \E i \in 1..Len(violations) :
                violations[i].concentration_pct.num
                  = 100 * violations[i].concentration_pct.den

\* No account has more than four violations in either derivation.
C30_AtMostFour ==
  Answered("compliance_concentration") =>
    \A a \in AccountIds :
       /\ Len(OfAccount(Val(resp).violations.from_trades, a)) <= 4
       /\ Len(OfAccount(Val(resp).violations.from_bank, a)) <= 4

\* The trade half of C30.
C30_SmallAccountsFromTrades ==
  Answered("compliance_concentration") =>
    \A a \in AccountIds :
       SmallAccountFlagged(Cardinality(PositiveFromTrades(a, Val(resp).date)),
                           OfAccount(Val(resp).violations.from_trades, a))

\* The bank half of C30.
C30_SmallAccountsFromBank ==
  Answered("compliance_concentration") =>
    \A a \in AccountIds :
       SmallAccountFlagged(Cardinality(PositiveFromBank(a, Val(resp).date)),
                           OfAccount(Val(resp).violations.from_bank, a))

\* C30: in each derivation an account with one to four positions of strictly
\* positive value, zero-share aggregates dropped, has at least one violation,
\* a single one being flagged at exactly 100%, and no account has more than
\* four violations.
C30_SmallAccountsFlagged ==
  C30_AtMostFour /\ C30_SmallAccountsFromTrades /\ C30_SmallAccountsFromBank

\* Concentrations answered over four positive positions from the trades, all
\* four flagged, and over five of equal value, none flagged.
C30_FourReached ==
  /\ Answered("compliance_concentration")
  /\ Cardinality(PositiveFromTrades("ACC001", Val(resp).date)) = 4
  /\ Len(Val(resp).violations.from_trades) = 4

C30_FiveReached ==
  /\ Answered("compliance_concentration")
  /\ Cardinality(PositiveFromTrades("ACC001", Val(resp).date)) = 5
  /\ Val(resp).violations.from_trades = <<>>

\* A concentration answered over a snapshot with one held position of positive
\* value and no violation from the bank.
C30_UnflaggedReached ==
  /\ Answered("compliance_concentration")
  /\ Cardinality(PositiveFromBank("ACC001", Val(resp).date)) = 1
  /\ Val(resp).violations.from_bank = <<>>

\* The bank half of C30 with the rows without shares counted as positions, as
\* the bank derivation counts them.
C30_SmallAccountsFromBankRows ==
  Answered("compliance_concentration") =>
    \A a \in AccountIds :
       SmallAccountFlagged(
         Cardinality({i \in 1..Len(db.positions) :
                        /\ db.positions[i].account_id = a
                        /\ db.positions[i].report_date = Val(resp).date
                        /\ db.positions[i].market_value > 0}),
         OfAccount(Val(resp).violations.from_bank, a))

====
